---- MODULE Spec2Model ----
(***************************************************************************)
(* A model of the cmi5 profile library (xAPI-js/cmi5): the session object  *)
(* AbstractCmi5, the statement builders of Cmi5Statements and the          *)
(* transport (the LRS / LMS) as the environment that resolves or rejects   *)
(* each outstanding request.                                               *)
(*                                                                         *)
(* Scores and mastery scores are decimals in [0,1]; the model writes them  *)
(* in tenths (5 is 0.5).  JavaScript is single threaded: every action is   *)
(* one synchronous run of the code, from a host call or the resolution of  *)
(* an awaited promise to the next await.                                   *)
(***************************************************************************)
EXTENDS Integers, Sequences, FiniteSets, TLC

\* The number of operations the host invokes on the session in one run.
MaxCalls == 2

\* JavaScript's undefined, where a number is expected (an optional field).
Undefined == -1

VARIABLES
  launchParameters,   \* this._launchParameters, as the launch URL gives them
  constructorError,   \* what the constructor threw ("" when it returned)
  lmsLaunchData,      \* the LMS.LaunchData state document the LMS holds
  xapi,               \* this._xapi is set
  authToken,          \* this._authToken
  launchData,         \* this._launchData
  learnerPreferences, \* this._learnerPreferences
  initializedDate,    \* this._initializedDate
  nextId,             \* the next value uuidv4() returns
  calls,              \* the operations invoked so far, each with its progress
  inflight,           \* the requests handed to the transport and not yet settled
  evaluation,         \* a call of a builder on its own: arguments and result
  locationSearch,     \* window.location.search, as launch parameters
  _instance,          \* Cmi5._instance
  constructed,        \* the Cmi5 objects constructed so far
  accesses            \* the uses of Cmi5.instance and clearInstance so far

vars == <<launchParameters, constructorError, lmsLaunchData, xapi, authToken, launchData, learnerPreferences,
          initializedDate, nextId, calls, inflight, evaluation,
          locationSearch, _instance, constructed, accesses>>

singletonVars == <<locationSearch, _instance, constructed, accesses>>

----------------------------------------------------------------------------
(* Values *)

LaunchModes == {"Normal", "Browse", "Review", "undefined"}

MasteryScores == {Undefined, 0, 5}

\* A score as the host supplies it: omitted, a bare number, or a ResultScore
\* object whose scaled member may be missing.
NoScore == [kind |-> "undefined", scaled |-> Undefined]

NumberScore(n) == [kind |-> "number", scaled |-> n]

ResultScore(n) == [kind |-> "object", scaled |-> n]

Scores == {NoScore, NumberScore(0), NumberScore(4), NumberScore(5),
           ResultScore(9), ResultScore(Undefined)}

\* The caller's options.transform: absent, or one that returns the statement
\* with an id of the caller's own and a result.score of the caller's own,
\* which records the scaled value the transform found on the statement it
\* was given.
CallerScore(found) == [kind |-> "caller", scaled |-> found.scaled]

Transforms == {"none", "rewrite"}

\* The launch parameters of the URL; a parameter the URL lacks is "".
LaunchParameterNames == {"fetch", "endpoint", "actor", "activityId",
                         "registration"}

LaunchParametersWithout(missing) ==
  [name \in LaunchParameterNames |->
     IF name \in missing THEN "" ELSE "url-" \o name]

\* Cmi5._instance: null, or the object the getter constructed, with the
\* launch parameters its constructor read.
NoInstance == [id |-> 0,
               launchParameters |->
                 LaunchParametersWithout(LaunchParameterNames)]

\* launchData.contextTemplate: its registration member and the category and
\* parent lists of its contextActivities.  The LMS sends a template without
\* any of them, or one that holds a registration of its own and one entry in
\* each list.
NoTemplate == [registration |-> "undefined", category |-> <<>>,
               parent |-> <<>>]

LmsTemplate == [registration |-> "lms", category |-> <<"lms">>,
                parent |-> <<"lms">>]

ContextTemplates == {NoTemplate, LmsTemplate}

NoLaunchData == [defined |-> FALSE, launchMode |-> "undefined",
                 masteryScore |-> Undefined, contextTemplate |-> NoTemplate]

LaunchDatas == [defined : {TRUE}, launchMode : LaunchModes,
                masteryScore : MasteryScores,
                contextTemplate : ContextTemplates]

\* No builder is called on its own.
NoEvaluation == [function |-> "none", arguments |-> <<>>,
                 returned |-> FALSE, result |-> <<>>]

\* A statement id: a value of uuidv4(), or the id the caller's transform
\* gives the statement in place of one.
NoId == [by |-> "undefined", n |-> 0]

Uuid(n) == [by |-> "uuidv4", n |-> n]

CallerId(id) == [by |-> "caller", n |-> id.n]

\* A statement, and a partial statement (absent members are undefined).
NoStatement == [id |-> NoId, verb |-> "undefined", score |-> NoScore,
                success |-> "undefined", actor |-> "undefined",
                timestamp |-> "undefined", registration |-> "undefined",
                category |-> <<>>, object |-> "undefined",
                interactionType |-> "undefined", parent |-> <<>>,
                masteryscore |-> Undefined]

\* JavaScript truthiness of an optional number: undefined, 0 and NaN are falsy.
TruthyNumber(n) == n # Undefined /\ n # 0

\* JavaScript truthiness of a score argument: an object is truthy.
TruthyScore(s) ==
  CASE s.kind = "undefined" -> FALSE
    [] s.kind = "number" -> s.scaled # 0
    [] OTHER -> TRUE

_isNumber(s) == s.kind = "number"

_toResultScore(s) == IF _isNumber(s) THEN ResultScore(s.scaled) ELSE s

----------------------------------------------------------------------------
(* Statement builders (Cmi5Statements) *)

\* DeepMerge where a list of b replaces that of a.
DeepMerge_ListsReplace(a, b) ==
  [id |-> IF b.id # NoId THEN b.id ELSE a.id,
   verb |-> IF b.verb # "undefined" THEN b.verb ELSE a.verb,
   score |-> IF b.score # NoScore THEN b.score ELSE a.score,
   success |-> IF b.success # "undefined" THEN b.success ELSE a.success,
   actor |-> IF b.actor # "undefined" THEN b.actor ELSE a.actor,
   timestamp |-> IF b.timestamp # "undefined" THEN b.timestamp ELSE a.timestamp,
   registration |-> IF b.registration # "undefined" THEN b.registration
                    ELSE a.registration,
   category |-> IF b.category # <<>> THEN b.category ELSE a.category,
   object |-> IF b.object # "undefined" THEN b.object ELSE a.object,
   interactionType |-> IF b.interactionType # "undefined"
                       THEN b.interactionType ELSE a.interactionType,
   parent |-> IF b.parent # <<>> THEN b.parent ELSE a.parent,
   masteryscore |-> IF b.masteryscore # Undefined THEN b.masteryscore
                    ELSE a.masteryscore]

\* deepmerge.all([a, b]) on statements: a new statement in which a member of
\* b replaces that of a, and a list of b is appended to that of a.
DeepMerge(a, b) ==
  [id |-> IF b.id # NoId THEN b.id ELSE a.id,
   verb |-> IF b.verb # "undefined" THEN b.verb ELSE a.verb,
   score |-> IF b.score # NoScore THEN b.score ELSE a.score,
   success |-> IF b.success # "undefined" THEN b.success ELSE a.success,
   actor |-> IF b.actor # "undefined" THEN b.actor ELSE a.actor,
   timestamp |-> IF b.timestamp # "undefined" THEN b.timestamp ELSE a.timestamp,
   registration |-> IF b.registration # "undefined" THEN b.registration
                    ELSE a.registration,
   category |-> a.category \o b.category,
   object |-> IF b.object # "undefined" THEN b.object ELSE a.object,
   interactionType |-> IF b.interactionType # "undefined"
                       THEN b.interactionType ELSE a.interactionType,
   parent |-> a.parent \o b.parent,
   masteryscore |-> IF b.masteryscore # Undefined THEN b.masteryscore
                    ELSE a.masteryscore]

\* The objects a build reaches through ctx, each at its address: the
\* contextTemplate (T), its contextActivities (TA), which T refers to, and
\* launchParameters.actor (A).
Heap(ld) ==
  [T |-> [registration |-> ld.contextTemplate.registration,
          contextActivities |-> "TA"],
   TA |-> [category |-> ld.contextTemplate.category,
           parent |-> ld.contextTemplate.parent],
   A |-> [name |-> launchParameters.actor]]

\* Object.assign({}, template) where the copy is not made: context is the
\* template itself.
ObjectAssign_Alias(heap) ==
  [heap |-> [T |-> heap.T, TA |-> heap.TA, A |-> heap.A, C |-> heap.T],
   ref |-> "T"]

\* Object.assign({}, template): a new object (C) with the members of the
\* template, its reference to contextActivities included.
ObjectAssign(heap) ==
  [heap |-> [T |-> heap.T, TA |-> heap.TA, A |-> heap.A, C |-> heap.T],
   ref |-> "C"]

\* Cmi5AllowedStatement's context without the write of context.registration:
\* the copy keeps the registration member of the template.
AllowedContext_TemplateRegistration(ld) == ObjectAssign(Heap(ld))

\* The heap and the context of Cmi5AllowedStatement once it has written
\* context.registration.
AllowedContext(ld) ==
  LET context == ObjectAssign(Heap(ld)) IN
  [heap |-> [context.heap EXCEPT
               ![context.ref].registration = launchParameters.registration],
   ref |-> context.ref]

\* contextTemplate and launchParameters.actor as a build leaves them.
TemplateAfterBuild(ld) ==
  LET heap == AllowedContext(ld).heap IN
  [registration |-> heap.T.registration,
   category |-> heap[heap.T.contextActivities].category,
   parent |-> heap[heap.T.contextActivities].parent]

ActorAfterBuild(ld) == AllowedContext(ld).heap.A.name

Cmi5AllowedStatement(ld, id, statement) ==
  LET allowed == AllowedContext(ld)
      heap == allowed.heap
      context == heap[allowed.ref]
      cmi5AllowedStatementRequirements ==
        [NoStatement EXCEPT
           !.id = Uuid(id), !.actor = heap.A.name, !.timestamp = "now",
           !.registration = context.registration,
           !.category = heap[context.contextActivities].category,
           !.parent = heap[context.contextActivities].parent]
  IN DeepMerge(cmi5AllowedStatementRequirements, statement)

Cmi5DefinedStatement(ld, id, statement) ==
  LET cmi5DefinedStatementRequirements ==
        [NoStatement EXCEPT !.object = launchParameters.activityId,
                            !.category = <<"cmi5">>]
  IN Cmi5AllowedStatement(ld, id,
       DeepMerge(cmi5DefinedStatementRequirements, statement))

\* A builder either returns a statement or throws.
Built(statement) == [error |-> "", statement |-> statement]

Thrown(message) == [error |-> message, statement |-> NoStatement]

TypeError == "TypeError: Cannot read properties of undefined"

MasteryNotMet == "Learner has not met Mastery Score"

ModeError(verb) == "Can only send " \o verb \o " when launchMode is 'Normal'"

Cmi5CompleteStatement(ld, id) ==
  IF ~ld.defined THEN Thrown(TypeError)
  ELSE IF ld.launchMode # "Normal" THEN Thrown(ModeError("COMPLETED"))
  ELSE Built(Cmi5DefinedStatement(ld, id,
         [NoStatement EXCEPT !.verb = "completed",
                             !.category = <<"moveOn">>]))

\* The masteryscore context extension of a Passed or Failed statement:
\* written when ctx.launchData.masteryScore is truthy.
MasteryScoreExtension(ld) ==
  IF TruthyNumber(ld.masteryScore) THEN ld.masteryScore ELSE Undefined

PassGateFails(ld, rScore) ==
  /\ TruthyNumber(ld.masteryScore)
  /\ \/ rScore.kind = "undefined"
     \/ rScore.scaled = Undefined
     \/ rScore.scaled < ld.masteryScore

\* Cmi5PassStatement without its launchMode check.
Cmi5PassStatement_NoModeGate(ld, score, id) ==
  IF ~ld.defined THEN Thrown(TypeError)
  ELSE LET rScore == _toResultScore(score) IN
    IF PassGateFails(ld, rScore) THEN Thrown(MasteryNotMet)
    ELSE Built(Cmi5DefinedStatement(ld, id,
           [NoStatement EXCEPT !.verb = "passed", !.score = rScore,
                               !.success = "true",
                               !.category = <<"moveOn">>,
                               !.masteryscore = MasteryScoreExtension(ld)]))

Cmi5PassStatement(ld, score, id) ==
  IF ~ld.defined THEN Thrown(TypeError)
  ELSE IF ld.launchMode # "Normal" THEN Thrown(ModeError("PASSED"))
  ELSE LET rScore == _toResultScore(score) IN
    IF PassGateFails(ld, rScore) THEN Thrown(MasteryNotMet)
    ELSE Built(Cmi5DefinedStatement(ld, id,
           [NoStatement EXCEPT !.verb = "passed", !.score = rScore,
                               !.success = "true",
                               !.category = <<"moveOn">>,
                               !.masteryscore = MasteryScoreExtension(ld)]))

Cmi5FailStatement(ld, score, id) ==
  IF ~ld.defined THEN Thrown(TypeError)
  ELSE IF ld.launchMode # "Normal" THEN Thrown(ModeError("FAILED"))
  ELSE Built(Cmi5DefinedStatement(ld, id,
         [NoStatement EXCEPT !.verb = "failed",
                             !.score = _toResultScore(score),
                             !.success = "false",
                             !.category = <<"moveOn">>,
                             !.masteryscore = MasteryScoreExtension(ld)]))

Cmi5TerminateStatement(ld, id) ==
  IF ~ld.defined THEN Thrown(TypeError)
  ELSE Built(Cmi5DefinedStatement(ld, id,
         [NoStatement EXCEPT !.verb = "terminated"]))

Cmi5ProgressStatement(ld, id) ==
  IF ~ld.defined THEN Thrown(TypeError)
  ELSE Built(Cmi5AllowedStatement(ld, id,
         [NoStatement EXCEPT !.verb = "progressed"]))

\* The partial statement Cmi5InteractionStatement hands to the layer below:
\* the verb, the derived object id, the interaction definition and, when an
\* objective is given, the parent list holding it.
InteractionPartial(testId, questionId, interactionType, objective) ==
  [NoStatement EXCEPT
     !.verb = "answered",
     !.object = launchParameters.activityId \o "/test/" \o testId
                  \o "/question/" \o questionId,
     !.interactionType = interactionType,
     !.parent = IF objective # "undefined" THEN <<objective>> ELSE <<>>]

\* Cmi5InteractionStatement with a launchMode check.
Cmi5InteractionStatement_NormalOnly(ld, id, testId, questionId, interactionType, objective) ==
  IF ~ld.defined THEN Thrown(TypeError)
  ELSE IF ld.launchMode # "Normal" THEN Thrown(ModeError("ANSWERED"))
  ELSE Built(Cmi5AllowedStatement(ld, id,
         InteractionPartial(testId, questionId, interactionType, objective)))

\* Cmi5InteractionStatement built by the cmi5-defined layer.
Cmi5InteractionStatement_Defined(ld, id, testId, questionId, interactionType, objective) ==
  IF ~ld.defined THEN Thrown(TypeError)
  ELSE Built(Cmi5DefinedStatement(ld, id,
         InteractionPartial(testId, questionId, interactionType, objective)))

\* Every Cmi5Interaction...Statement builder returns what this one builds
\* from the response and the definition it derives.
Cmi5InteractionStatement(ld, id, testId, questionId, interactionType, objective) ==
  IF ~ld.defined THEN Thrown(TypeError)
  ELSE Built(Cmi5AllowedStatement(ld, id,
         InteractionPartial(testId, questionId, interactionType, objective)))

\* definition.interactionType as the builder behind each typed entry point
\* writes it.
InteractionTypes ==
  [interactionTrueFalse |-> "true-false", interactionChoice |-> "choice",
   interactionFillIn |-> "fill-in", interactionLongFillIn |-> "long-fill-in",
   interactionLikert |-> "likert", interactionMatching |-> "matching",
   interactionPerformance |-> "performance",
   interactionSequencing |-> "sequencing", interactionNumeric |-> "numeric",
   interactionOther |-> "other"]

Cmi5InitializedStatement(ld, id) ==
  IF ~ld.defined THEN Thrown(TypeError)
  ELSE Built(Cmi5DefinedStatement(ld, id,
         [NoStatement EXCEPT !.verb = "initialized"]))

setResultScore(resultScore, s) == [s EXCEPT !.score = resultScore]

\* The options of a send: the score stamp moveOn registers (NoScore when it
\* registers none) and the caller's own transform.
NoOptions == [stamp |-> NoScore, caller |-> "none"]

CallerOptions(transform) == [stamp |-> NoScore, caller |-> transform]

Cmi5MoveOnStatementSendOptions(ld, options) ==
  IF TruthyScore(options.score) /\ ~TruthyNumber(ld.masteryScore)
  THEN [stamp |-> _toResultScore(options.score), caller |-> options.transform]
  ELSE CallerOptions(options.transform)

\* The statements of a list of builder results, or the first error thrown.
Collect(results) ==
  LET bad == {i \in 1..Len(results) : results[i].error # ""} IN
  IF bad = {}
  THEN [error |-> "", statements |-> [i \in 1..Len(results) |-> results[i].statement]]
  ELSE [error |-> results[CHOOSE i \in bad : \A j \in bad : i <= j].error,
        statements |-> <<>>]

\* The Passed or Failed statement moveOn decides on, if any.
MoveOnVerdict(ld, options, id) ==
  IF TruthyScore(options.score) /\ TruthyNumber(ld.masteryScore)
  THEN LET rScore == _toResultScore(options.score) IN
       IF rScore.scaled # Undefined /\ rScore.scaled >= ld.masteryScore
       THEN <<Cmi5PassStatement(ld, rScore, id)>>
       ELSE <<Cmi5FailStatement(ld, rScore, id)>>
  ELSE <<>>

\* Cmi5MoveOnStatements with Completed pushed before the verdict.
Cmi5MoveOnStatements_CompleteFirst(ld, options, id) ==
  IF ~ld.defined THEN [error |-> TypeError, statements |-> <<>>]
  ELSE IF ld.launchMode # "Normal"
  THEN [error |-> ModeError("FAILED"), statements |-> <<>>]
  ELSE LET complete == <<Cmi5CompleteStatement(ld, id)>>
           verdict == MoveOnVerdict(ld, options, id + 1)
           n == Len(verdict)
           terminate == IF ~options.disableSendTerminated
                        THEN <<Cmi5TerminateStatement(ld, id + n + 1)>>
                        ELSE <<>>
       IN Collect(complete \o verdict \o terminate)

\* Cmi5MoveOnStatements that pushes Terminated whatever the options say.
Cmi5MoveOnStatements_AlwaysTerminates(ld, options, id) ==
  IF ~ld.defined THEN [error |-> TypeError, statements |-> <<>>]
  ELSE IF ld.launchMode # "Normal"
  THEN [error |-> ModeError("FAILED"), statements |-> <<>>]
  ELSE LET verdict == MoveOnVerdict(ld, options, id)
           n == Len(verdict)
           complete == <<Cmi5CompleteStatement(ld, id + n)>>
           terminate == <<Cmi5TerminateStatement(ld, id + n + 1)>>
       IN Collect(verdict \o complete \o terminate)

\* Cmi5MoveOnStatements without its own launchMode check: the builders it
\* calls throw theirs.
Cmi5MoveOnStatements_NoModeGate(ld, options, id) ==
  IF ~ld.defined THEN [error |-> TypeError, statements |-> <<>>]
  ELSE LET verdict == MoveOnVerdict(ld, options, id)
           n == Len(verdict)
           complete == <<Cmi5CompleteStatement(ld, id + n)>>
           terminate == IF ~options.disableSendTerminated
                        THEN <<Cmi5TerminateStatement(ld, id + n + 1)>>
                        ELSE <<>>
       IN Collect(verdict \o complete \o terminate)

Cmi5MoveOnStatements(ld, options, id) ==
  IF ~ld.defined THEN [error |-> TypeError, statements |-> <<>>]
  ELSE IF ld.launchMode # "Normal"
  THEN [error |-> ModeError("FAILED"), statements |-> <<>>]
  ELSE LET verdict == MoveOnVerdict(ld, options, id)
           n == Len(verdict)
           complete == <<Cmi5CompleteStatement(ld, id + n)>>
           terminate == IF ~options.disableSendTerminated
                        THEN <<Cmi5TerminateStatement(ld, id + n + 1)>>
                        ELSE <<>>
       IN Collect(verdict \o complete \o terminate)

\* The caller's transform function, applied to a statement.
transformProvided(s) ==
  [s EXCEPT !.id = CallerId(s.id), !.score = CallerScore(s.score)]

_applyTransform(mergedStatement, options) ==
  LET stamped == IF options.stamp # NoScore
                 THEN setResultScore(options.stamp, mergedStatement)
                 ELSE mergedStatement
  IN IF options.caller = "rewrite"
     THEN transformProvided(stamped)
     ELSE stamped

----------------------------------------------------------------------------
(* The session (AbstractCmi5) *)

NoArgs == [score |-> NoScore, transform |-> "none",
           disableSendTerminated |-> FALSE, sessionState |-> FALSE,
           statement |-> NoStatement, testId |-> "", questionId |-> "",
           interactionType |-> "undefined", objective |-> "undefined"]

\* A call of a public operation: the arguments it read, the launch data and
\* initializedDate it found on the session, the statements it built, the options it sends them
\* with, the index of the statement whose send it awaits, the statements it
\* has handed to the transport, the ids it returns, and how it ended.
NewCall(op, args) ==
  [op |-> op, args |-> args, launchData |-> launchData,
   initializedDate |-> initializedDate,
   state |-> "pending", error |-> "", step |-> "",
   statements |-> <<>>, sendOptions |-> NoOptions, next |-> 0,
   sent |-> <<>>, newStatementIds |-> <<>>]

\* A builder that throws on ctx.launchData or on launchMode has read none
\* of the call's arguments.
ArgsRead(args, error) == IF error = MasteryNotMet THEN args ELSE NoArgs

Request(c, kind, statement) == [call |-> c, kind |-> kind, statement |-> statement]

\* sendXapiStatement: the transform is applied and the result handed to the
\* transport.
SendXapiStatement(statement, options) == _applyTransform(statement, options)

\* The constructor that looks for endpoint before fetch.
ConstructorError_EndpointFirst(parameters) ==
  IF parameters.endpoint = ""
  THEN "Unable to construct, no endpoint parameter found in URL"
  ELSE IF parameters.fetch = ""
  THEN "Unable to construct, no fetch parameter found in URL."
  ELSE IF parameters.actor = ""
  THEN "Unable to construct, no actor parameter found in URL."
  ELSE IF parameters.activityId = ""
  THEN "Unable to construct, no activityId parameter found in URL."
  ELSE IF parameters.registration = ""
  THEN "Unable to construct, no registration parameter found in URL."
  ELSE ""

\* What the constructor throws for these launch parameters, "" when it
\* returns (the message without the backquotes it puts around the name).
ConstructorError(parameters) ==
  IF parameters.fetch = ""
  THEN "Unable to construct, no fetch parameter found in URL."
  ELSE IF parameters.endpoint = ""
  THEN "Unable to construct, no endpoint parameter found in URL"
  ELSE IF parameters.actor = ""
  THEN "Unable to construct, no actor parameter found in URL."
  ELSE IF parameters.activityId = ""
  THEN "Unable to construct, no activityId parameter found in URL."
  ELSE IF parameters.registration = ""
  THEN "Unable to construct, no registration parameter found in URL."
  ELSE ""

\* What a build leaves of the objects it reached through ctx; a builder that
\* throws has not reached them.
BuildEffects(error) ==
  IF error # ""
  THEN UNCHANGED <<launchParameters, launchData>>
  ELSE /\ launchData' = [launchData EXCEPT
                           !.contextTemplate = TemplateAfterBuild(launchData)]
       /\ launchParameters' = [launchParameters EXCEPT
                                 !.actor = ActorAfterBuild(launchData)]

\* The static members of Cmi5 while nothing has used them.
SingletonUnused ==
  /\ locationSearch = launchParameters
  /\ _instance = NoInstance
  /\ constructed = 0
  /\ accesses = <<>>

Init ==
  /\ \E missing \in SUBSET LaunchParameterNames :
       launchParameters = LaunchParametersWithout(missing)
  /\ constructorError = ConstructorError(launchParameters)
  /\ lmsLaunchData \in LaunchDatas
  /\ xapi = FALSE
  /\ authToken = "null"
  /\ launchData = NoLaunchData
  /\ learnerPreferences = "undefined"
  /\ initializedDate = "undefined"
  /\ nextId = 1
  /\ calls = <<>>
  /\ inflight = {}
  /\ evaluation = NoEvaluation
  /\ SingletonUnused

\* complete, pass, fail, terminate, progress: build the statement, then send it.
BuildAndSend(op, args, built, options) ==
  LET c == Len(calls) + 1 IN
  /\ constructorError = ""
  /\ Len(calls) < MaxCalls
  /\ BuildEffects(built.error)
  /\ IF built.error # ""
     THEN /\ calls' = Append(calls, [NewCall(op, ArgsRead(args, built.error))
                         EXCEPT !.state = "rejected", !.error = built.error])
          /\ UNCHANGED <<nextId, inflight>>
     ELSE LET sendStatement == SendXapiStatement(built.statement, options) IN
          /\ calls' = Append(calls, [NewCall(op, args) EXCEPT
                         !.statements = <<built.statement>>,
                         !.sendOptions = options, !.next = 1,
                         !.sent = <<sendStatement>>])
          /\ inflight' = inflight \cup {Request(c, "statement", sendStatement)}
          /\ nextId' = nextId + 1
  /\ UNCHANGED <<constructorError, evaluation, singletonVars, lmsLaunchData, xapi, authToken,
                 learnerPreferences, initializedDate>>

complete(transform) ==
  BuildAndSend("complete", [NoArgs EXCEPT !.transform = transform],
               Cmi5CompleteStatement(launchData, nextId),
               CallerOptions(transform))

pass(score) ==
  BuildAndSend("pass", [NoArgs EXCEPT !.score = score],
               Cmi5PassStatement(launchData, score, nextId), NoOptions)

fail(score) ==
  BuildAndSend("fail", [NoArgs EXCEPT !.score = score],
               Cmi5FailStatement(launchData, score, nextId), NoOptions)

terminate ==
  BuildAndSend("terminate", NoArgs,
               Cmi5TerminateStatement(launchData, nextId), NoOptions)

progress ==
  BuildAndSend("progress", NoArgs,
               Cmi5ProgressStatement(launchData, nextId), NoOptions)

\* The interaction entry points: each builds its statement with its
\* Cmi5Interaction...Statement builder and sends it.
InteractionEntryPoints ==
  {"interactionTrueFalse", "interactionChoice", "interactionFillIn",
   "interactionLongFillIn", "interactionLikert", "interactionMatching",
   "interactionPerformance", "interactionSequencing", "interactionNumeric",
   "interactionOther", "interaction"}

\* What the host names a test, a question and an objective with, and the
\* interactionType of the definition it passes to the generic entry point.
TestIds == {"test1"}

QuestionIds == {"question1"}

Objectives == {"undefined", "objective1"}

HostInteractionTypes == {"other"}

\* The interaction entry points: each passes its arguments to its builder;
\* the generic one passes the host's definition, a typed one derives it.
interaction(entryPoint) ==
  \E testId \in TestIds, questionId \in QuestionIds,
     objective \in Objectives, hostType \in HostInteractionTypes :
    LET interactionType == IF entryPoint = "interaction" THEN hostType
                           ELSE InteractionTypes[entryPoint]
        args == [NoArgs EXCEPT
                   !.testId = testId, !.questionId = questionId,
                   !.objective = objective,
                   !.interactionType =
                     IF entryPoint = "interaction" THEN hostType
                     ELSE "undefined"]
    IN BuildAndSend(entryPoint, args,
                    Cmi5InteractionStatement(launchData, nextId, testId,
                                             questionId, interactionType,
                                             objective),
                    NoOptions)

\* The partial statements of the host's own: one of a verb only, and one
\* that also holds an id, an actor, a timestamp and a context.registration.
HostStatements ==
  {[NoStatement EXCEPT !.verb = "experienced"],
   [NoStatement EXCEPT !.verb = "experienced",
                       !.id = [by |-> "caller", n |-> 0],
                       !.actor = "caller", !.timestamp = "caller",
                       !.registration = "caller"]}

\* The host sends a statement of its own through the Allowed layer: the
\* partial statement goes through Cmi5AllowedStatement and the result to the
\* transport.
sendCmi5AllowedStatement(statement) ==
  BuildAndSend("sendCmi5AllowedStatement",
               [NoArgs EXCEPT !.statement = statement],
               IF ~launchData.defined THEN Thrown(TypeError)
               ELSE Built(Cmi5AllowedStatement(launchData, nextId, statement)),
               NoOptions)

\* moveOn that does not await its sends: every statement is handed to the
\* transport at once.
moveOn_NoAwait(options) ==
  LET c == Len(calls) + 1
      args == [NoArgs EXCEPT !.score = options.score,
                             !.transform = options.transform,
                             !.disableSendTerminated = options.disableSendTerminated]
      moveOnStatements == Cmi5MoveOnStatements(launchData, options, nextId)
      sendOptions == Cmi5MoveOnStatementSendOptions(launchData, options)
      n == Len(moveOnStatements.statements)
      all == [i \in 1..n |->
                SendXapiStatement(moveOnStatements.statements[i], sendOptions)]
  IN
  /\ constructorError = ""
  /\ Len(calls) < MaxCalls
  /\ BuildEffects(moveOnStatements.error)
  /\ IF moveOnStatements.error # ""
     THEN /\ calls' = Append(calls,
                         [NewCall("moveOn", ArgsRead(args, moveOnStatements.error))
                            EXCEPT !.state = "rejected",
                                   !.error = moveOnStatements.error])
          /\ UNCHANGED <<nextId, inflight>>
     ELSE /\ calls' = Append(calls, [NewCall("moveOn", args) EXCEPT
                         !.statements = moveOnStatements.statements,
                         !.sendOptions = sendOptions, !.next = n,
                         !.sent = all])
          /\ inflight' = inflight
                           \cup {Request(c, "statement", all[i]) : i \in 1..n}
          /\ nextId' = nextId + n
  /\ UNCHANGED <<constructorError, evaluation, singletonVars, lmsLaunchData, xapi, authToken,
                 learnerPreferences, initializedDate>>

\* moveOn up to its first await: all the statements are built, and the first
\* is sent.
moveOn(options) ==
  LET c == Len(calls) + 1
      args == [NoArgs EXCEPT !.score = options.score,
                             !.transform = options.transform,
                             !.disableSendTerminated = options.disableSendTerminated]
      moveOnStatements == Cmi5MoveOnStatements(launchData, options, nextId)
      sendOptions == Cmi5MoveOnStatementSendOptions(launchData, options)
  IN
  /\ constructorError = ""
  /\ Len(calls) < MaxCalls
  /\ BuildEffects(moveOnStatements.error)
  /\ IF moveOnStatements.error # ""
     THEN /\ calls' = Append(calls,
                         [NewCall("moveOn", ArgsRead(args, moveOnStatements.error))
                            EXCEPT !.state = "rejected",
                                   !.error = moveOnStatements.error])
          /\ UNCHANGED <<nextId, inflight>>
     ELSE LET sendStatement ==
                SendXapiStatement(moveOnStatements.statements[1], sendOptions)
          IN
          /\ calls' = Append(calls, [NewCall("moveOn", args) EXCEPT
                         !.statements = moveOnStatements.statements,
                         !.sendOptions = sendOptions, !.next = 1,
                         !.sent = <<sendStatement>>])
          /\ inflight' = inflight \cup {Request(c, "statement", sendStatement)}
          /\ nextId' = nextId + Len(moveOnStatements.statements)
  /\ UNCHANGED <<constructorError, evaluation, singletonVars, lmsLaunchData, xapi, authToken,
                 learnerPreferences, initializedDate>>

\* initialize up to its first await.
\* initialize that does not await the auth token: the launch data is
\* requested together with the token.
initialize_NoAwait(sessionState) ==
  LET c == Len(calls) + 1
      args == [NoArgs EXCEPT !.sessionState = sessionState]
  IN
  /\ constructorError = ""
  /\ Len(calls) < MaxCalls
  /\ IF sessionState
     THEN /\ authToken' = "sessionState"
          /\ xapi' = TRUE
          /\ calls' = Append(calls, [NewCall("initialize", args) EXCEPT
                                       !.step = "getState"])
          /\ inflight' = inflight \cup {Request(c, "getState", NoStatement)}
     ELSE /\ calls' = Append(calls, [NewCall("initialize", args) EXCEPT
                                       !.step = "post"])
          /\ inflight' = inflight \cup {Request(c, "post", NoStatement),
                                        Request(c, "getState", NoStatement)}
          /\ UNCHANGED <<authToken, xapi>>
  /\ UNCHANGED <<launchParameters, constructorError, evaluation, singletonVars, lmsLaunchData, launchData, learnerPreferences,
                 initializedDate, nextId>>

initialize(sessionState) ==
  LET c == Len(calls) + 1
      args == [NoArgs EXCEPT !.sessionState = sessionState]
  IN
  /\ constructorError = ""
  /\ Len(calls) < MaxCalls
  /\ IF sessionState
     THEN /\ authToken' = "sessionState"
          /\ xapi' = TRUE
          /\ calls' = Append(calls, [NewCall("initialize", args) EXCEPT
                                       !.step = "getState"])
          /\ inflight' = inflight \cup {Request(c, "getState", NoStatement)}
     ELSE /\ calls' = Append(calls, [NewCall("initialize", args) EXCEPT
                                       !.step = "post"])
          /\ inflight' = inflight \cup {Request(c, "post", NoStatement)}
          /\ UNCHANGED <<authToken, xapi>>
  /\ UNCHANGED <<launchParameters, constructorError, evaluation, singletonVars, lmsLaunchData, launchData, learnerPreferences,
                 initializedDate, nextId>>

\* get isAuthenticated(): Boolean(this._xapi)
isAuthenticated == xapi

\* The call c with the awaited request r settled and taken off the transport.
Settled(r) == inflight \ {r}

Finish(c, state, error, ids) ==
  calls' = [calls EXCEPT ![c].state = state, ![c].error = error,
                         ![c].newStatementIds = ids]

\* ResolvePost that keeps the token but makes no XAPI client.
ResolvePost_NoClient(r) ==
  /\ r \in inflight /\ r.kind = "post"
  /\ authToken' = "lms"
  /\ UNCHANGED xapi
  /\ calls' = [calls EXCEPT ![r.call].step = "getState"]
  /\ inflight' = Settled(r) \cup {Request(r.call, "getState", NoStatement)}
  /\ UNCHANGED <<launchParameters, constructorError, evaluation, singletonVars, lmsLaunchData, launchData, learnerPreferences,
                 initializedDate, nextId>>

\* The auth-token POST resolves: the token is kept, the XAPI client is made
\* and the launch data requested.
ResolvePost(r) ==
  /\ r \in inflight /\ r.kind = "post"
  /\ authToken' = "lms"
  /\ xapi' = TRUE
  /\ calls' = [calls EXCEPT ![r.call].step = "getState"]
  /\ inflight' = Settled(r) \cup {Request(r.call, "getState", NoStatement)}
  /\ UNCHANGED <<launchParameters, constructorError, evaluation, singletonVars, lmsLaunchData, launchData, learnerPreferences,
                 initializedDate, nextId>>

\* getState resolves: the launch data is kept and the preferences requested.
ResolveGetState(r) ==
  /\ r \in inflight /\ r.kind = "getState"
  /\ launchData' = lmsLaunchData
  /\ calls' = [calls EXCEPT ![r.call].step = "getAgentProfile"]
  /\ inflight' = Settled(r) \cup {Request(r.call, "getAgentProfile", NoStatement)}
  /\ UNCHANGED <<launchParameters, constructorError, evaluation, singletonVars, lmsLaunchData, xapi, authToken, learnerPreferences,
                 initializedDate, nextId>>

\* SettleGetAgentProfile that sends Initialized for a resumed session too.
SettleGetAgentProfile_AlwaysInitialized(r, ok) ==
  LET c == r.call
      built == Cmi5InitializedStatement(launchData, nextId)
      sendStatement == SendXapiStatement(built.statement, NoOptions)
  IN
  /\ r \in inflight /\ r.kind = "getAgentProfile"
  /\ learnerPreferences' = IF ok THEN "lms" ELSE "empty"
  /\ initializedDate' = IF calls[c].args.sessionState THEN "sessionState"
                        ELSE "now"
  /\ BuildEffects(built.error)
  /\ calls' = [calls EXCEPT ![c].step = "sendStatement",
                            ![c].statements = <<built.statement>>,
                            ![c].next = 1,
                            ![c].sent = <<sendStatement>>]
  /\ inflight' = Settled(r) \cup {Request(c, "statement", sendStatement)}
  /\ nextId' = nextId + 1
  /\ UNCHANGED <<constructorError, evaluation, singletonVars, lmsLaunchData, xapi, authToken>>

\* SettleGetAgentProfile where a failure of getAgentProfile is not caught:
\* initialize rejects with it.
SettleGetAgentProfile_Rethrows(r, ok) ==
  LET c == r.call
      built == Cmi5InitializedStatement(launchData, nextId)
  IN
  /\ r \in inflight /\ r.kind = "getAgentProfile"
  /\ IF ~ok
     THEN /\ calls' = [calls EXCEPT ![c].state = "rejected",
                                    ![c].error = "TransportError"]
          /\ inflight' = Settled(r)
          /\ UNCHANGED <<launchParameters, launchData, learnerPreferences,
                         initializedDate, nextId>>
     ELSE /\ learnerPreferences' = "lms"
          /\ IF calls[c].args.sessionState
             THEN /\ initializedDate' = "sessionState"
                  /\ UNCHANGED <<launchParameters, launchData, nextId>>
                  /\ calls' = [calls EXCEPT ![c].step = "done",
                                            ![c].state = "resolved"]
                  /\ inflight' = Settled(r)
             ELSE LET sendStatement ==
                        SendXapiStatement(built.statement, NoOptions)
                  IN
                  /\ initializedDate' = "now"
                  /\ BuildEffects(built.error)
                  /\ calls' = [calls EXCEPT ![c].step = "sendStatement",
                                            ![c].statements = <<built.statement>>,
                                            ![c].next = 1,
                                            ![c].sent = <<sendStatement>>]
                  /\ inflight' = Settled(r)
                                   \cup {Request(c, "statement", sendStatement)}
                  /\ nextId' = nextId + 1
  /\ UNCHANGED <<constructorError, evaluation, singletonVars, lmsLaunchData, xapi, authToken>>

\* getAgentProfile settles (a failure is caught and gives {}): the rest of
\* initialize runs, to the send of Initialized or to its end.
SettleGetAgentProfile(r, ok) ==
  LET c == r.call
      built == Cmi5InitializedStatement(launchData, nextId)
  IN
  /\ r \in inflight /\ r.kind = "getAgentProfile"
  /\ learnerPreferences' = IF ok THEN "lms" ELSE "empty"
  /\ IF calls[c].args.sessionState
     THEN /\ initializedDate' = "sessionState"
          /\ UNCHANGED <<launchParameters, launchData>>
          /\ calls' = [calls EXCEPT ![c].step = "done", ![c].state = "resolved"]
          /\ inflight' = Settled(r)
          /\ UNCHANGED nextId
     ELSE LET sendStatement == SendXapiStatement(built.statement, NoOptions) IN
          /\ initializedDate' = "now"
          /\ BuildEffects(built.error)
          /\ calls' = [calls EXCEPT ![c].step = "sendStatement",
                                    ![c].statements = <<built.statement>>,
                                    ![c].next = 1,
                                    ![c].sent = <<sendStatement>>]
          /\ inflight' = Settled(r) \cup {Request(c, "statement", sendStatement)}
          /\ nextId' = nextId + 1
  /\ UNCHANGED <<constructorError, evaluation, singletonVars, lmsLaunchData, xapi, authToken>>

\* The send of a statement resolves: the operation that awaits it goes on.
\* moveOn keeps the id of the statement it built and sends the next one.
ResolveStatement(r) ==
  LET c == r.call
      call == calls[c]
  IN
  /\ r \in inflight /\ r.kind = "statement"
  /\ IF call.op = "moveOn"
     THEN LET ids == Append(call.newStatementIds, call.statements[call.next].id) IN
          IF call.next < Len(call.statements)
          THEN LET sendStatement == SendXapiStatement(
                      call.statements[call.next + 1], call.sendOptions)
               IN
               /\ calls' = [calls EXCEPT ![c].newStatementIds = ids,
                                         ![c].next = call.next + 1,
                                         ![c].sent = Append(call.sent, sendStatement)]
               /\ inflight' = Settled(r)
                                \cup {Request(c, "statement", sendStatement)}
          ELSE /\ Finish(c, "resolved", "", ids)
               /\ inflight' = Settled(r)
     ELSE /\ Finish(c, "resolved", "", <<r.statement.id>>)
          /\ inflight' = Settled(r)
  /\ UNCHANGED <<launchParameters, constructorError, evaluation, singletonVars, lmsLaunchData, xapi,
                 authToken, launchData, learnerPreferences, initializedDate,
                 nextId>>

TransportError == "TransportError"

\* Reject where moveOn goes on to its next statement before it reports the
\* failure.
Reject_KeepsSending(r) ==
  LET c == r.call
      call == calls[c]
      more == call.op = "moveOn" /\ call.next < Len(call.statements)
      sendStatement == SendXapiStatement(call.statements[call.next + 1],
                                         call.sendOptions)
  IN
  /\ r \in inflight /\ r.kind # "getAgentProfile"
  /\ calls' = [calls EXCEPT
       ![c].state = "rejected", ![c].error = TransportError,
       ![c].sent = IF more THEN Append(call.sent, sendStatement) ELSE call.sent]
  /\ inflight' = Settled(r)
  /\ UNCHANGED <<launchParameters, constructorError, evaluation, singletonVars, lmsLaunchData, xapi,
                 authToken, launchData, learnerPreferences, initializedDate,
                 nextId>>

\* A request other than getAgentProfile is rejected: the operation that
\* awaits it rejects with that failure.
Reject(r) ==
  /\ r \in inflight /\ r.kind # "getAgentProfile"
  /\ Finish(r.call, "rejected", TransportError, calls[r.call].newStatementIds)
  /\ inflight' = Settled(r)
  /\ UNCHANGED <<launchParameters, constructorError, evaluation, singletonVars, lmsLaunchData, xapi,
                 authToken, launchData, learnerPreferences, initializedDate,
                 nextId>>

MoveOnOptions == [score : Scores, transform : Transforms,
                  disableSendTerminated : BOOLEAN]

Next ==
  \/ \E sessionState \in BOOLEAN : initialize(sessionState)
  \/ \E transform \in Transforms : complete(transform)
  \/ \E score \in Scores : pass(score)
  \/ \E score \in Scores : fail(score)
  \/ terminate
  \/ progress
  \/ \E entryPoint \in InteractionEntryPoints : interaction(entryPoint)
  \/ \E statement \in HostStatements : sendCmi5AllowedStatement(statement)
  \/ \E options \in MoveOnOptions : moveOn(options)
  \/ \E r \in inflight : ResolvePost(r)
  \/ \E r \in inflight : ResolveGetState(r)
  \/ \E r \in inflight, ok \in BOOLEAN : SettleGetAgentProfile(r, ok)
  \/ \E r \in inflight : ResolveStatement(r)
  \/ \E r \in inflight : Reject(r)

Spec == Init /\ [][Next]_vars

\* A session resumed from its persisted state: what initialize(sessionState)
\* leaves once it has resolved, the host having made no other call yet.
InitResumed ==
  /\ launchParameters = LaunchParametersWithout({})
  /\ constructorError = ""
  /\ lmsLaunchData \in LaunchDatas
  /\ xapi = TRUE
  /\ authToken = "sessionState"
  /\ launchData = lmsLaunchData
  /\ learnerPreferences = "lms"
  /\ initializedDate = "sessionState"
  /\ nextId = 1
  /\ calls = <<>>
  /\ inflight = {}
  /\ evaluation = NoEvaluation
  /\ SingletonUnused

SpecResumed == InitResumed /\ [][Next]_vars

----------------------------------------------------------------------------
(* The moveOn of the class before the builders were split from it *)

\* sendCmi5DefinedStatement of that class: the statement is built, the
\* transform of the options applied and the result sent; the transport
\* answers with the id of the statement it was sent.
PreRefactorSend(built, options) ==
  LET sendStatement == _applyTransform(built.statement, options) IN
  [sent |-> sendStatement, data |-> sendStatement.id]

\* What that moveOn hands the transport and what it returns when every send
\* resolves, the first statement taking the uuid id: the verdict through
\* pass or fail with the caller's options, Completed with the effective
\* options, Terminated through terminate(), which takes no options.
PreRefactorMoveOn(ld, options, id) ==
  LET rScore == _toResultScore(options.score)
      verdict ==
        IF TruthyScore(options.score) /\ TruthyNumber(ld.masteryScore)
        THEN IF rScore.scaled # Undefined /\ rScore.scaled >= ld.masteryScore
             THEN <<PreRefactorSend(Cmi5PassStatement(ld, rScore, id),
                                    CallerOptions(options.transform))>>
             ELSE <<PreRefactorSend(Cmi5FailStatement(ld, rScore, id),
                                    CallerOptions(options.transform))>>
        ELSE <<>>
      n == Len(verdict)
      effectiveOptions ==
        IF TruthyScore(options.score) /\ ~TruthyNumber(ld.masteryScore)
        THEN [stamp |-> rScore, caller |-> options.transform]
        ELSE CallerOptions(options.transform)
      completed == <<PreRefactorSend(Cmi5CompleteStatement(ld, id + n),
                                    effectiveOptions)>>
      terminated ==
        IF ~options.disableSendTerminated
        THEN <<PreRefactorSend(Cmi5TerminateStatement(ld, id + n + 1),
                               NoOptions)>>
        ELSE <<>>
      responses == verdict \o completed \o terminated
  IN [sent |-> [i \in 1..Len(responses) |-> responses[i].sent],
      newStatementIds |-> [i \in 1..Len(responses) |-> responses[i].data]]

----------------------------------------------------------------------------
(* The builders on their own: encoders of responses, patterns and durations *)

\* The most key-value pairs of a matching answer map.
MaxPairs == 2

\* Numbers are written in decimal, as String(n), n.toString() and a template
\* literal write them.
Digits == <<"0", "1", "2", "3", "4", "5", "6", "7", "8", "9">>

RECURSIVE NaturalToString(_)
NaturalToString(n) ==
  IF n < 10 THEN Digits[n + 1]
  ELSE NaturalToString(n \div 10) \o Digits[(n % 10) + 1]

NumberToString(n) ==
  IF n < 0 THEN "-" \o NaturalToString(-n) ELSE NaturalToString(n)

\* Array.prototype.join
RECURSIVE Join(_, _)
Join(strings, separator) ==
  IF strings = <<>> THEN ""
  ELSE IF Len(strings) = 1 THEN strings[1]
  ELSE strings[1] \o separator \o Join(Tail(strings), separator)

\* An object used as a map is the sequence of its <<key, value>> members in
\* the order they were inserted.  A key that is the decimal form of an array
\* index is an integer key.
PropertyKeys == {"a", "b", "1", "2"}

PropertyValues == {"1", "2"}

MaxArrayIndex == 9

IsArrayIndex(key) == \E n \in 0..MaxArrayIndex : NumberToString(n) = key

RECURSIVE IntegerEntriesFrom(_, _)
IntegerEntriesFrom(n, object) ==
  IF n > MaxArrayIndex THEN <<>>
  ELSE SelectSeq(object, LAMBDA e : e[1] = NumberToString(n))
         \o IntegerEntriesFrom(n + 1, object)

\* Object.entries that lists the members in insertion order, integer keys
\* too.
ObjectEntries_InsertionOrder(object) == object

\* Object.entries: the members with integer keys in ascending numeric order,
\* then the members with string keys in insertion order.
ObjectEntries(object) ==
  IntegerEntriesFrom(0, object)
    \o SelectSeq(object, LAMBDA e : ~IsArrayIndex(e[1]))

\* Object.entries(answers).map(([k, v]) => k[.]v).join("[,]")
MatchingEncoding(object) ==
  LET entries == ObjectEntries(object) IN
  Join([i \in 1..Len(entries) |-> entries[i][1] \o "[.]" \o entries[i][2]],
       "[,]")

\* An optional argument that was not passed.
NotPassed == [passed |-> FALSE, value |-> <<>>]

Passed(value) == [passed |-> TRUE, value |-> value]

\* The response and the definition Cmi5InteractionMatchingStatement hands
\* to Cmi5InteractionStatement (an object, even an empty one, is truthy).
Cmi5InteractionMatchingStatement(answers, correctAnswers) ==
  [response |-> MatchingEncoding(answers),
   interactionType |-> "matching",
   correctResponsesPattern |->
     IF correctAnswers.passed
     THEN Passed(<<MatchingEncoding(correctAnswers.value)>>)
     ELSE NotPassed]

\* A numeric criteria argument: undefined, or an object with some of the
\* members exact, min and max (a member it lacks is written 0 here).
NumericMembers == {"exact", "min", "max"}

Numbers == {-2, 0, 15}

NoCriteria == [type |-> "undefined", members |-> {},
               exact |-> 0, min |-> 0, max |-> 0]

NumericCriterias ==
  {NoCriteria} \cup
  {c \in [type : {"object"}, members : SUBSET NumericMembers,
          exact : Numbers, min : Numbers, max : Numbers] :
     \A m \in NumericMembers \ c.members : c[m] = 0}

_isNumericExact(candidate) ==
  candidate.type = "object" /\ "exact" \in candidate.members

_isNumericRange(candidate) ==
  /\ candidate.type = "object"
  /\ "min" \in candidate.members /\ "max" \in candidate.members

\* _numericCriteriaToString that looks for a range before an exact value.
_numericCriteriaToString_RangeFirst(criteria) ==
  IF _isNumericRange(criteria)
  THEN NumberToString(criteria.min) \o ":" \o NumberToString(criteria.max)
  ELSE IF _isNumericExact(criteria)
  THEN NumberToString(criteria.exact)
  ELSE ":"

_numericCriteriaToString(criteria) ==
  IF _isNumericExact(criteria)
  THEN NumberToString(criteria.exact)
  ELSE IF _isNumericRange(criteria)
  THEN NumberToString(criteria.min) \o ":" \o NumberToString(criteria.max)
  ELSE ":"

\* The response and the definition Cmi5InteractionNumericStatement hands to
\* Cmi5InteractionStatement.
Cmi5InteractionNumericStatement(answer, correctAnswer) ==
  [response |-> NumberToString(answer),
   interactionType |-> "numeric",
   correctResponsesPattern |->
     IF correctAnswer.type # "undefined"
     THEN Passed(<<_numericCriteriaToString(correctAnswer)>>)
     ELSE NotPassed]

\* XAPI.calculateISO8601Duration(start, end), dates in whole seconds: the
\* elapsed time as PT, then the hours, minutes and seconds that are not 0.
calculateISO8601Duration(start, end) ==
  LET elapsed == end - start
      hours == elapsed \div 3600
      minutes == (elapsed % 3600) \div 60
      seconds == elapsed % 60
  IN "PT" \o (IF hours > 0 THEN NaturalToString(hours) \o "H" ELSE "")
          \o (IF minutes > 0 THEN NaturalToString(minutes) \o "M" ELSE "")
          \o (IF seconds > 0 THEN NaturalToString(seconds) \o "S" ELSE "")

DurationVerbs == {"completed", "passed", "failed", "terminated"}

\* Cmi5ResultDuration that measures from the epoch, not from initializedDate.
Cmi5ResultDuration_FromEpoch(verb, ctxInitializedDate, now) ==
  IF verb \in DurationVerbs
  THEN Passed(calculateISO8601Duration(0, now))
  ELSE NotPassed

\* result.duration as the builder of a statement of this verb writes it, at
\* the time now, for a session with this initializedDate.
Cmi5ResultDuration(verb, ctxInitializedDate, now) ==
  IF verb \in DurationVerbs
  THEN Passed(calculateISO8601Duration(ctxInitializedDate, now))
  ELSE NotPassed

\* Boolean.prototype.toString
BooleanToString(b) == IF b THEN "true" ELSE "false"

\* Cmi5InteractionTrueFalseStatement that leaves the pattern out when
\* correctAnswer is falsy.
Cmi5InteractionTrueFalseStatement_Truthy(answer, correctAnswer) ==
  [response |-> BooleanToString(answer),
   interactionType |-> "true-false",
   correctResponsesPattern |->
     IF correctAnswer.passed /\ correctAnswer.value
     THEN Passed(<<"true">>)
     ELSE NotPassed]

\* The response and the definition Cmi5InteractionTrueFalseStatement hands
\* to Cmi5InteractionStatement (correctAnswer is tested against undefined).
Cmi5InteractionTrueFalseStatement(answer, correctAnswer) ==
  [response |-> BooleanToString(answer),
   interactionType |-> "true-false",
   correctResponsesPattern |->
     IF correctAnswer.passed
     THEN Passed(IF correctAnswer.value THEN <<"true">> ELSE <<"false">>)
     ELSE NotPassed]

\* The response and the definition a builder that takes a list of answers
\* hands to Cmi5InteractionStatement (an array, even an empty one, is
\* truthy).
Cmi5InteractionListStatement(interactionType, answers, correctAnswers) ==
  [response |-> Join(answers, "[,]"),
   interactionType |-> interactionType,
   correctResponsesPattern |->
     IF correctAnswers.passed
     THEN Passed(<<Join(correctAnswers.value, "[,]")>>)
     ELSE NotPassed]

Cmi5InteractionChoiceStatement(answerIds, correctAnswerIds) ==
  Cmi5InteractionListStatement("choice", answerIds, correctAnswerIds)

Cmi5InteractionFillInStatement(answers, correctAnswers) ==
  Cmi5InteractionListStatement("fill-in", answers, correctAnswers)

Cmi5InteractionLongFillInStatement(answers, correctAnswers) ==
  Cmi5InteractionListStatement("long-fill-in", answers, correctAnswers)

Cmi5InteractionSequencingStatement(answerIds, correctAnswerIds) ==
  Cmi5InteractionListStatement("sequencing", answerIds, correctAnswerIds)

\* The result of Cmi5InteractionStatement with a duration measured from the
\* session's initializedDate, not from the start of the Period.
Cmi5InteractionStatementResult_SinceInitialized(ctxInitializedDate, response, success, duration) ==
  [response |-> response,
   duration |->
     IF duration.passed
     THEN Passed(calculateISO8601Duration(ctxInitializedDate,
                                          duration.value.end))
     ELSE NotPassed,
   success |-> success]

\* The result Cmi5InteractionStatement gives the statement it builds in a
\* session with this initializedDate: the response, a duration when a
\* Period is passed, and success when it is a boolean.
Cmi5InteractionStatementResult(ctxInitializedDate, response, success, duration) ==
  [response |-> response,
   duration |->
     IF duration.passed
     THEN Passed(calculateISO8601Duration(duration.value.start,
                                          duration.value.end))
     ELSE NotPassed,
   success |-> IF success.passed /\ success.value \in BOOLEAN
               THEN success ELSE NotPassed]

\* The arguments the builders are called with.
Objects(n) ==
  UNION {{object \in [1..k -> PropertyKeys \X PropertyValues] :
            \A i, j \in 1..k : i # j => object[i][1] # object[j][1]} :
         k \in 0..n}

AnswerTexts == {"a", "b"}

Lists(n) == UNION {[1..k -> AnswerTexts] : k \in 0..n}

ListBuilders ==
  {"Cmi5InteractionChoiceStatement", "Cmi5InteractionFillInStatement",
   "Cmi5InteractionLongFillInStatement",
   "Cmi5InteractionSequencingStatement"}

InitializedDates == {0, 1000}

ElapsedSeconds == {31, 60, 93, 125, 3600, 7593}

PeriodStarts == {0, 1000, 2000}

Periods ==
  {[start |-> start, end |-> start + elapsed] :
     start \in PeriodStarts, elapsed \in ElapsedSeconds}

Responses == {"true", "a[,]b"}

BuilderVerbs == DurationVerbs \cup {"initialized", "progressed"}

Evaluations ==
  {[function |-> "Cmi5InteractionMatchingStatement",
    arguments |-> [answers |-> answers, correctAnswers |-> correctAnswers],
    returned |-> FALSE, result |-> <<>>] :
     answers \in Objects(MaxPairs),
     correctAnswers \in {NotPassed} \cup {Passed(o) : o \in Objects(1)}}
  \cup
  {[function |-> "Cmi5InteractionNumericStatement",
    arguments |-> [answer |-> answer, correctAnswer |-> correctAnswer],
    returned |-> FALSE, result |-> <<>>] :
     answer \in Numbers, correctAnswer \in NumericCriterias}
  \cup
  {[function |-> "Cmi5ResultDuration",
    arguments |-> [verb |-> verb, initializedDate |-> date,
                   now |-> date + elapsed],
    returned |-> FALSE, result |-> <<>>] :
     verb \in BuilderVerbs, date \in InitializedDates,
     elapsed \in ElapsedSeconds}
  \cup
  {[function |-> "Cmi5InteractionTrueFalseStatement",
    arguments |-> [answer |-> answer, correctAnswer |-> correctAnswer],
    returned |-> FALSE, result |-> <<>>] :
     answer \in BOOLEAN,
     correctAnswer \in {NotPassed} \cup {Passed(b) : b \in BOOLEAN}}
  \cup
  {[function |-> builder,
    arguments |-> [answers |-> answers, correctAnswers |-> correctAnswers],
    returned |-> FALSE, result |-> <<>>] :
     builder \in ListBuilders, answers \in Lists(MaxPairs),
     correctAnswers \in {NotPassed} \cup {Passed(l) : l \in Lists(MaxPairs)}}
  \cup
  {[function |-> "Cmi5InteractionStatement",
    arguments |-> [initializedDate |-> date, response |-> response,
                   success |-> success, duration |-> duration],
    returned |-> FALSE, result |-> <<>>] :
     date \in InitializedDates, response \in Responses,
     success \in {NotPassed} \cup {Passed(b) : b \in BOOLEAN},
     duration \in {NotPassed} \cup {Passed(period) : period \in Periods}}

Returns(result) ==
  /\ evaluation' = [evaluation EXCEPT !.returned = TRUE, !.result = result]
  /\ UNCHANGED <<launchParameters, constructorError, lmsLaunchData, xapi,
                 authToken, launchData, learnerPreferences, initializedDate,
                 nextId, calls, inflight, singletonVars>>

EvaluateMatching ==
  /\ evaluation.function = "Cmi5InteractionMatchingStatement"
  /\ ~evaluation.returned
  /\ Returns(Cmi5InteractionMatchingStatement(
               evaluation.arguments.answers,
               evaluation.arguments.correctAnswers))

EvaluateNumeric ==
  /\ evaluation.function = "Cmi5InteractionNumericStatement"
  /\ ~evaluation.returned
  /\ Returns(Cmi5InteractionNumericStatement(
               evaluation.arguments.answer,
               evaluation.arguments.correctAnswer))

EvaluateDuration ==
  /\ evaluation.function = "Cmi5ResultDuration"
  /\ ~evaluation.returned
  /\ Returns(Cmi5ResultDuration(evaluation.arguments.verb,
                                evaluation.arguments.initializedDate,
                                evaluation.arguments.now))

EvaluateTrueFalse ==
  /\ evaluation.function = "Cmi5InteractionTrueFalseStatement"
  /\ ~evaluation.returned
  /\ Returns(Cmi5InteractionTrueFalseStatement(
               evaluation.arguments.answer,
               evaluation.arguments.correctAnswer))

EvaluateChoice ==
  /\ evaluation.function = "Cmi5InteractionChoiceStatement"
  /\ ~evaluation.returned
  /\ Returns(Cmi5InteractionChoiceStatement(
               evaluation.arguments.answers,
               evaluation.arguments.correctAnswers))

EvaluateFillIn ==
  /\ evaluation.function = "Cmi5InteractionFillInStatement"
  /\ ~evaluation.returned
  /\ Returns(Cmi5InteractionFillInStatement(
               evaluation.arguments.answers,
               evaluation.arguments.correctAnswers))

EvaluateLongFillIn ==
  /\ evaluation.function = "Cmi5InteractionLongFillInStatement"
  /\ ~evaluation.returned
  /\ Returns(Cmi5InteractionLongFillInStatement(
               evaluation.arguments.answers,
               evaluation.arguments.correctAnswers))

EvaluateSequencing ==
  /\ evaluation.function = "Cmi5InteractionSequencingStatement"
  /\ ~evaluation.returned
  /\ Returns(Cmi5InteractionSequencingStatement(
               evaluation.arguments.answers,
               evaluation.arguments.correctAnswers))

EvaluateInteraction ==
  /\ evaluation.function = "Cmi5InteractionStatement"
  /\ ~evaluation.returned
  /\ Returns(Cmi5InteractionStatementResult(
               evaluation.arguments.initializedDate,
               evaluation.arguments.response,
               evaluation.arguments.success,
               evaluation.arguments.duration))

\* A builder called on its own, on a resumed session the host makes no call
\* on.
InitEncoders ==
  /\ launchParameters = LaunchParametersWithout({})
  /\ constructorError = ""
  /\ lmsLaunchData = [defined |-> TRUE, launchMode |-> "Normal",
                      masteryScore |-> Undefined,
                      contextTemplate |-> NoTemplate]
  /\ xapi = TRUE
  /\ authToken = "sessionState"
  /\ launchData = lmsLaunchData
  /\ learnerPreferences = "lms"
  /\ initializedDate = "sessionState"
  /\ nextId = 1
  /\ calls = <<>>
  /\ inflight = {}
  /\ evaluation \in Evaluations
  /\ SingletonUnused

NextEncoders ==
  \/ EvaluateMatching
  \/ EvaluateNumeric
  \/ EvaluateDuration
  \/ EvaluateTrueFalse
  \/ EvaluateChoice
  \/ EvaluateFillIn
  \/ EvaluateLongFillIn
  \/ EvaluateSequencing
  \/ EvaluateInteraction

SpecEncoders == InitEncoders /\ [][NextEncoders]_vars

----------------------------------------------------------------------------
(* Properties *)

Calls == 1..Len(calls)

CallsOf(ops) == {c \in Calls : calls[c].op \in ops}

\* The calls of `ops` made once the launch data is there.
ReadyCalls(ops) == {c \in CallsOf(ops) : calls[c].launchData.defined}

\* Those made in launchMode Normal.
NormalCalls(ops) ==
  {c \in ReadyCalls(ops) : calls[c].launchData.launchMode = "Normal"}

\* Those made in launchMode Normal after initialize() has set initializedDate.
InitializedNormalCalls(ops) ==
  {c \in NormalCalls(ops) : calls[c].initializedDate # "undefined"}

Verbs(statements) == [i \in 1..Len(statements) |-> statements[i].verb]

\* The requests of call c that the transport has not settled.
Outstanding(c) == {r \in inflight : r.call = c}

\* The place of a verb in the end-of-attempt sequence.
Rank(verb) ==
  CASE verb \in {"passed", "failed"} -> 1
    [] verb = "completed" -> 2
    [] verb = "terminated" -> 3
    [] OTHER -> 0

\* A score meets the mastery score m: it has a numeric scaled value >= m.
Meets(score, m) ==
  LET rScore == _toResultScore(score) IN
  rScore.kind = "object" /\ rScore.scaled # Undefined /\ rScore.scaled >= m

\* C1: in launchMode Normal with masteryScore m defined and a score s
\* supplied, a moveOn() whose sends succeed has sent exactly [X, Completed,
\* Terminated], X being Passed when s.scaled >= m (a tie passes) and Failed
\* otherwise, and X carries the coerced score as result.score.
C1_MoveOnSequence ==
  \A c \in InitializedNormalCalls({"moveOn"}) :
    LET call == calls[c]
        m == call.launchData.masteryScore
        X == IF Meets(call.args.score, m) THEN "passed" ELSE "failed"
    IN (/\ call.state = "resolved"
        /\ m # Undefined
        /\ call.args.score # NoScore
        /\ call.args.transform = "none"
        /\ ~call.args.disableSendTerminated)
       => /\ Verbs(call.sent) = <<X, "completed", "terminated">>
          /\ call.sent[1].score = _toResultScore(call.args.score)

\* C2: for every defined masteryScore (0 included) and every numeric score
\* supplied (0 included), a moveOn() in launchMode Normal that has sent
\* Completed has sent exactly one of Passed or Failed before it.
C2_ExactlyOneVerdict ==
  \A c \in InitializedNormalCalls({"moveOn"}) :
    LET call == calls[c]
        verdicts == {i \in 1..Len(call.sent) : Rank(call.sent[i].verb) = 1}
    IN (/\ call.launchData.masteryScore # Undefined
        /\ call.args.score.kind = "number"
        /\ \E i \in 1..Len(call.sent) : call.sent[i].verb = "completed")
       => /\ Cardinality(verdicts) = 1
          /\ \A i \in verdicts : call.sent[i + 1].verb = "completed"

\* C3: every moveOn() in launchMode Normal sends its statements in the order
\* Passed/Failed, Completed, Terminated, each at most once; one whose sends
\* all succeed has sent exactly one Completed; with no score supplied it
\* sends no Passed and no Failed.
C3_CompletedOnce ==
  \A c \in NormalCalls({"moveOn"}) :
    LET call == calls[c]
        n == Len(call.sent)
    IN /\ \A i \in 1..n : Rank(call.sent[i].verb) > 0
       /\ \A i, j \in 1..n :
            i < j => Rank(call.sent[i].verb) < Rank(call.sent[j].verb)
       /\ call.state = "resolved"
            => Cardinality({i \in 1..n : call.sent[i].verb = "completed"}) = 1
       /\ call.args.score = NoScore
            => \A i \in 1..n : Rank(call.sent[i].verb) # 1

C3_Witness ==
  \E c \in NormalCalls({"moveOn"}) :
    /\ calls[c].state = "resolved"
    /\ calls[c].args.transform = "rewrite"
    /\ Verbs(calls[c].sent) = <<"failed", "completed", "terminated">>

\* C4: a moveOn() whose sends all succeed has sent Terminated, as its last
\* statement, exactly when disableSendTerminated is not set; when it is set
\* no Terminated statement is built, sent or among the returned ids.
C4_TerminatedUnlessDisabled ==
  \A c \in NormalCalls({"moveOn"}) :
    LET call == calls[c]
        n == Len(call.sent)
        terminated == {i \in 1..n : call.sent[i].verb = "terminated"}
    IN /\ call.state = "resolved"
            => /\ n > 0
               /\ Len(call.newStatementIds) = n
               /\ IF call.args.disableSendTerminated
                  THEN terminated = {}
                  ELSE terminated = {n}
       /\ call.args.disableSendTerminated
            => /\ terminated = {}
               /\ \A i \in 1..Len(call.statements) :
                    call.statements[i].verb # "terminated"
               /\ Len(call.newStatementIds) <= Len(call.statements)

C4_Witness ==
  \E c \in NormalCalls({"moveOn"}) :
    /\ calls[c].state = "resolved"
    /\ calls[c].args.disableSendTerminated
    /\ Verbs(calls[c].sent) = <<"passed", "completed">>

\* C5: within one moveOn() call at most one send is outstanding, it is the
\* send of the statement sent last, and every statement sent before it has
\* resolved; the statements reach the transport in the order Passed/Failed,
\* Completed, Terminated.
C5_Sequential ==
  \A c \in CallsOf({"moveOn"}) :
    LET call == calls[c]
        n == Len(call.sent)
    IN /\ Cardinality(Outstanding(c)) <= 1
       /\ \A r \in Outstanding(c) : n > 0 /\ r.statement = call.sent[n]
       /\ Len(call.newStatementIds) <= n
       /\ n <= Len(call.newStatementIds) + 1
       /\ Outstanding(c) # {} => n = Len(call.newStatementIds) + 1
       /\ \A i, j \in 1..n :
            i < j => Rank(call.sent[i].verb) < Rank(call.sent[j].verb)

C5_Witness ==
  \E c \in CallsOf({"moveOn"}) :
    /\ Len(calls[c].sent) = 3
    /\ Len(calls[c].newStatementIds) = 2
    /\ Cardinality(Outstanding(c)) = 1
    /\ Cardinality(inflight) = 2

\* C6: a moveOn() that a send rejected has rejected with the transport's
\* failure; the rejected statement is the last one it sent, no later statement
\* of the sequence is sent (no Terminated after a rejected Completed), and no
\* statement is sent twice.
C6_RejectHalts ==
  \A c \in CallsOf({"moveOn"}) :
    LET call == calls[c]
        n == Len(call.sent)
    IN (call.state = "rejected" /\ n > 0)
       => /\ call.error = TransportError
          /\ Outstanding(c) = {}
          /\ n = Len(call.newStatementIds) + 1
          /\ call.sent[n].verb = "completed"
               => \A i \in 1..n : call.sent[i].verb # "terminated"
          /\ \A i, j \in 1..n : i # j => call.sent[i] # call.sent[j]

C6_Witness ==
  \E c \in CallsOf({"moveOn"}) :
    /\ calls[c].state = "rejected"
    /\ calls[c].error = TransportError
    /\ Verbs(calls[c].sent) = <<"passed", "completed">>
    /\ Len(calls[c].statements) = 3

\* C7: the list a moveOn() returns has one entry per statement sent, in
\* emission order, and its i-th entry is the id of the i-th statement handed
\* to the transport, whatever the options, a caller transform included.
C7_ReturnedIds ==
  \A c \in InitializedNormalCalls({"moveOn"}) :
    LET call == calls[c] IN
    call.state = "resolved"
      => /\ Len(call.newStatementIds) = Len(call.sent)
         /\ \A i \in 1..Len(call.sent) :
              call.newStatementIds[i] = call.sent[i].id

\* The message of the launchMode gate of complete(), pass() and fail().
GateMessage(op) ==
  CASE op = "complete" -> "Can only send COMPLETED when launchMode is 'Normal'"
    [] op = "pass" -> "Can only send PASSED when launchMode is 'Normal'"
    [] op = "fail" -> "Can only send FAILED when launchMode is 'Normal'"

GateVerb(op) ==
  CASE op = "complete" -> "completed"
    [] op = "pass" -> "passed"
    [] op = "fail" -> "failed"

\* C8: when launchMode is Browse, Review or undefined, complete(), pass() and
\* fail() fail at once with the message naming their verb and hand nothing to
\* the transport; in launchMode Normal, the mastery gate met, each sends
\* exactly one statement, of its verb.
C8_LaunchModeGate ==
  \A c \in ReadyCalls({"complete", "pass", "fail"}) :
    LET call == calls[c] IN
    IF call.launchData.launchMode # "Normal"
    THEN /\ call.state = "rejected"
         /\ call.error = GateMessage(call.op)
         /\ call.statements = <<>> /\ call.sent = <<>>
         /\ Outstanding(c) = {}
    ELSE IF call.error = MasteryNotMet
    THEN call.op = "pass" /\ call.sent = <<>> /\ Outstanding(c) = {}
    ELSE /\ call.error \in {"", TransportError}
         /\ Verbs(call.sent) = <<GateVerb(call.op)>>

C8_Witness ==
  \E c \in ReadyCalls({"pass"}) :
    /\ calls[c].launchData.launchMode = "Review"
    /\ calls[c].state = "rejected"
    /\ calls[c].error = "Can only send PASSED when launchMode is 'Normal'"

\* C9: when launchMode is not Normal, moveOn() fails with 'Can only send
\* FAILED when launchMode is 'Normal'' and builds and sends no statement.
C9_MoveOnGate ==
  \A c \in ReadyCalls({"moveOn"}) :
    LET call == calls[c] IN
    call.launchData.launchMode # "Normal"
      => /\ call.state = "rejected"
         /\ call.error = "Can only send FAILED when launchMode is 'Normal'"
         /\ call.statements = <<>> /\ call.sent = <<>>
         /\ call.newStatementIds = <<>>
         /\ Outstanding(c) = {}

C9_Witness ==
  \E c \in ReadyCalls({"moveOn"}) :
    /\ calls[c].launchData.launchMode = "Browse"
    /\ calls[c].launchData.masteryScore = 5
    /\ calls[c].state = "rejected"
    /\ calls[c].error = "Can only send FAILED when launchMode is 'Normal'"

\* C10: with masteryScore m defined and launchMode Normal, pass(score) sends
\* a Passed statement with result.success true and the coerced score exactly
\* when the score has scaled >= m (a tie passes); with the score omitted,
\* without a numeric scaled value or below m it fails with 'Learner has not
\* met Mastery Score' and sends nothing.
C10_PassMasteryGate ==
  \A c \in InitializedNormalCalls({"pass"}) :
    LET call == calls[c]
        m == call.launchData.masteryScore
    IN m # Undefined
       => IF Meets(call.args.score, m)
          THEN /\ call.error # MasteryNotMet
               /\ Verbs(call.sent) = <<"passed">>
               /\ call.sent[1].success = "true"
               /\ call.sent[1].score = _toResultScore(call.args.score)
          ELSE /\ call.state = "rejected"
               /\ call.error = MasteryNotMet
               /\ call.sent = <<>>

\* C11: every Passed statement sent, by pass() or by moveOn(), was built
\* with masteryScore undefined or with a score whose scaled value is >=
\* masteryScore, for every defined masteryScore, 0 included.
C11_PassedMeetsMastery ==
  \A c \in InitializedNormalCalls({"pass", "moveOn"}) :
    LET call == calls[c]
        m == call.launchData.masteryScore
    IN \A i \in 1..Len(call.sent) :
         call.sent[i].verb = "passed"
           => (m = Undefined \/ Meets(call.args.score, m))

\* A Terminated statement has been sent and the LRS has stored it.
TerminatedSent ==
  \E c \in Calls :
    /\ calls[c].state = "resolved"
    /\ Len(calls[c].sent) > 0
    /\ calls[c].sent[Len(calls[c].sent)].verb = "terminated"

\* The number of statements call c of the list cs has handed to the transport.
SentBy(cs, c) == IF c <= Len(cs) THEN Len(cs[c].sent) ELSE 0

\* C12: Terminated is terminal: once a Terminated statement has been sent, by
\* terminate() or by moveOn(), no step of the session hands another
\* statement to the transport, whatever the host calls.
C12_TerminatedIsTerminal ==
  [][TerminatedSent
       => \A c \in 1..Len(calls') : SentBy(calls', c) = SentBy(calls, c)]_vars

\* The verb of the statement terminate(), progress() and the interaction
\* entry points send.
UngatedVerb(op) ==
  CASE op = "terminate" -> "terminated"
    [] op = "progress" -> "progressed"
    [] OTHER -> "answered"

\* C13: once initialize has set the session up, terminate(), progress() and
\* every interaction entry point build and send their statement in every
\* launchMode: none is rejected because of launchMode (the only failure is
\* the transport's).
C13_NoLaunchModeGate ==
  \A c \in ReadyCalls({"terminate", "progress"} \cup InteractionEntryPoints) :
    LET call == calls[c] IN
    call.initializedDate # "undefined"
      => /\ Verbs(call.statements) = <<UngatedVerb(call.op)>>
         /\ call.sent = call.statements
         /\ call.error \in {"", TransportError}
         /\ call.state = "rejected" => call.error = TransportError

C13_Witness ==
  /\ \E c \in ReadyCalls({"interactionLikert"}) :
       /\ calls[c].launchData.launchMode = "Review"
       /\ calls[c].initializedDate = "now"
       /\ calls[c].state = "resolved"
       /\ Verbs(calls[c].sent) = <<"answered">>
  /\ \E c \in CallsOf({"initialize"}) : calls[c].state = "resolved"

\* Call c is the only initialize() the host has called.
OnlyInitialize(c) == CallsOf({"initialize"}) = {c}

\* C14: initialize(sessionState) makes no auth-token POST and sends no
\* Initialized statement, and once it has resolved authToken and
\* initializedDate are the ones supplied; initialize() without session state
\* fetches the token from the LMS, sets initializedDate to the current time
\* and sends exactly one Initialized statement (the session being initialized
\* once).
C14_InitializeResumesOrStarts ==
  /\ \A r \in inflight :
       r.kind = "post" => ~calls[r.call].args.sessionState
  /\ \A c \in CallsOf({"initialize"}) :
       LET call == calls[c] IN
       IF call.args.sessionState
       THEN /\ call.step \in {"getState", "getAgentProfile", "done"}
            /\ call.statements = <<>> /\ call.sent = <<>>
            /\ \A r \in Outstanding(c) : r.kind # "statement"
            /\ (call.state = "resolved" /\ OnlyInitialize(c))
                 => /\ authToken = "sessionState"
                    /\ initializedDate = "sessionState"
       ELSE /\ (call.step # "post" /\ OnlyInitialize(c)) => authToken = "lms"
            /\ Len(call.sent) <= 1
            /\ call.state = "resolved"
                 => /\ Verbs(call.sent) = <<"initialized">>
                    /\ call.newStatementIds = <<call.sent[1].id>>
                    /\ OnlyInitialize(c) => initializedDate = "now"

C14_Witness ==
  \E c \in CallsOf({"initialize"}) :
    /\ calls[c].args.sessionState
    /\ calls[c].state = "resolved"
    /\ calls[c].sent = <<>>
    /\ authToken = "sessionState" /\ initializedDate = "sessionState"
    /\ Len(calls) = 2

\* The initialize() calls of the list cs that have got as far as one of
\* these steps.
InitializesAt(cs, steps) ==
  {c \in 1..Len(cs) : cs[c].op = "initialize" /\ cs[c].step \in steps}

\* C15: initialize() is a transition out of Uninitialized only: over any
\* sequence of operations, repeated initialize() calls included, the launch
\* data is fetched at most once, initializedDate is assigned at most once, at
\* most one Initialized statement is sent, and launchParameters, launchData
\* and initializedDate change in no step but the one that first sets them.
C15_InitializeOnce ==
  [][/\ Cardinality(InitializesAt(calls',
          {"getState", "getAgentProfile", "sendStatement", "done"})) <= 1
     /\ Cardinality(InitializesAt(calls', {"sendStatement", "done"})) <= 1
     /\ Cardinality(InitializesAt(calls', {"sendStatement"})) <= 1
     /\ launchParameters' = launchParameters
     /\ launchData' # launchData => launchData = NoLaunchData
     /\ initializedDate' # initializedDate => initializedDate = "undefined"]_vars

\* C16: a failure of the learner-preference retrieval is swallowed:
\* initialize() goes on, the preferences are the empty value and a fresh
\* session still sends Initialized; initialize() rejects only on a failure of
\* the auth-token fetch, of the launch-data fetch or of the Initialized send,
\* and in the first two cases no Initialized statement is built or sent.
C16_PreferencesFailureSwallowed ==
  \A c \in CallsOf({"initialize"}) :
    LET call == calls[c] IN
    /\ call.state = "rejected"
         => /\ call.error = TransportError
            /\ call.step \in {"post", "getState", "sendStatement"}
            /\ call.step \in {"post", "getState"}
                 => call.statements = <<>> /\ call.sent = <<>>
            /\ call.step = "sendStatement"
                 => Verbs(call.sent) = <<"initialized">>
    /\ call.step \in {"sendStatement", "done"}
         => learnerPreferences \in {"lms", "empty"}
    /\ (OnlyInitialize(c) /\ learnerPreferences = "empty")
         => /\ call.step \in {"sendStatement", "done"}
            /\ call.args.sessionState => call.state = "resolved"
            /\ ~call.args.sessionState
                 => /\ Verbs(call.sent) = <<"initialized">>
                    /\ call.state = "pending" => Outstanding(c) # {}

C16_Witness ==
  \E c \in CallsOf({"initialize"}) :
    /\ OnlyInitialize(c)
    /\ ~calls[c].args.sessionState
    /\ learnerPreferences = "empty"
    /\ calls[c].state = "resolved"
    /\ Verbs(calls[c].sent) = <<"initialized">>

\* The order in which the launch parameters are required.
RequiredOrder == <<"fetch", "endpoint", "actor", "activityId", "registration">>

\* The constructor's message that names a launch parameter.
MessageNaming(name) ==
  CASE name = "fetch" -> "Unable to construct, no fetch parameter found in URL."
    [] name = "endpoint" -> "Unable to construct, no endpoint parameter found in URL"
    [] name = "actor" -> "Unable to construct, no actor parameter found in URL."
    [] name = "activityId" ->
         "Unable to construct, no activityId parameter found in URL."
    [] name = "registration" ->
         "Unable to construct, no registration parameter found in URL."

\* C17: for every subset of the launch parameters fetch, endpoint, actor,
\* activityId, registration that the URL lacks, construction fails exactly
\* when the subset is not empty, with the error that names the first missing
\* one in that order; when it fails there is no session: no operation runs
\* and nothing goes to the network.
C17_ConstructorNamesFirstMissing ==
  LET missing == {i \in 1..5 : launchParameters[RequiredOrder[i]] = ""} IN
  /\ (constructorError # "") <=> (missing # {})
  /\ missing # {}
       => /\ \E i \in missing :
               /\ \A j \in missing : i <= j
               /\ constructorError = MessageNaming(RequiredOrder[i])
          /\ calls = <<>> /\ inflight = {}
          /\ ~xapi /\ authToken = "null"
          /\ launchData = NoLaunchData /\ initializedDate = "undefined"

C17_Witness ==
  /\ launchParameters.fetch # "" /\ launchParameters.actor # ""
  /\ launchParameters.endpoint = "" /\ launchParameters.registration = ""
  /\ constructorError = "Unable to construct, no endpoint parameter found in URL"

\* C18: whatever partial statement the host passes to the Allowed-layer
\* builder, one that holds an id, an actor, a timestamp or a
\* context.registration included, the built statement has the freshly
\* generated id, the actor and the registration of the launch parameters and
\* the build time as timestamp.
C18_ForcedFields ==
  \A c \in ReadyCalls({"sendCmi5AllowedStatement"}) :
    LET call == calls[c] IN
    call.initializedDate # "undefined"
      => \A i \in 1..Len(call.statements) :
           LET statement == call.statements[i] IN
           /\ statement.id.by = "uuidv4"
           /\ statement.actor = launchParameters.actor
           /\ statement.timestamp = "now"
           /\ statement.registration = launchParameters.registration

\* The category list the claim gives a statement of this verb, the
\* contextTemplate's entries first.
ExpectedCategory(verb) ==
  lmsLaunchData.contextTemplate.category
    \o (IF verb \in {"completed", "passed", "failed"}
        THEN <<"cmi5", "moveOn">>
        ELSE IF verb \in {"initialized", "terminated"} THEN <<"cmi5">>
        ELSE <<>>)

\* C19: lists concatenate when a statement is assembled: the category list of
\* a Completed, Passed or Failed statement is the contextTemplate's entries,
\* then the cmi5 category, then the moveOn category; that of an Initialized
\* or Terminated statement is the contextTemplate's entries, then the cmi5
\* category; no entry of an earlier layer is replaced.
C19_CategoriesConcatenate ==
  \A c \in Calls :
    LET call == calls[c] IN
    /\ \A i \in 1..Len(call.statements) :
         call.statements[i].verb
             \in {"completed", "passed", "failed", "initialized", "terminated"}
           => call.statements[i].category
                = ExpectedCategory(call.statements[i].verb)
    /\ \A i \in 1..Len(call.sent) :
         call.sent[i].category = call.statements[i].category

C19_Witness ==
  \E c \in CallsOf({"moveOn"}) :
    /\ calls[c].state = "resolved"
    /\ Verbs(calls[c].sent) = <<"passed", "completed", "terminated">>
    /\ calls[c].sent[1].category = <<"lms", "cmi5", "moveOn">>
    /\ calls[c].sent[2].category = <<"lms", "cmi5", "moveOn">>
    /\ calls[c].sent[3].category = <<"lms", "cmi5">>

\* C20: building a statement mutates none of its inputs: after any sequence
\* of builds and sends, launchData (its contextTemplate with its category
\* list and registration), launchParameters and the actor are what they were
\* right after initialize, and every statement holds the contextTemplate's
\* category entries once, whatever was built before it.
C20_BuildsMutateNothing ==
  /\ launchData.defined => launchData = lmsLaunchData
  /\ constructorError = "" => launchParameters = LaunchParametersWithout({})
  /\ \A c \in Calls :
       \A i \in 1..Len(calls[c].statements) :
         LET category == calls[c].statements[i].category
             template == lmsLaunchData.contextTemplate.category
         IN /\ Len(category) >= Len(template)
            /\ SubSeq(category, 1, Len(template)) = template
            /\ \A k \in (Len(template) + 1)..Len(category) :
                 category[k] \in {"cmi5", "moveOn"}

C20_Witness ==
  /\ launchData.contextTemplate = LmsTemplate
  /\ Len(calls) = 2
  /\ calls[1].op = "complete" /\ calls[2].op = "interactionChoice"
  /\ \A c \in Calls : calls[c].state = "resolved"
  /\ calls[1].sent[1].category = <<"lms", "cmi5", "moveOn">>
  /\ calls[2].sent[1].category = <<"lms">>

\* C21: every statement produced in a run has an id distinct from the id of
\* every other statement produced in the run: the statements of one moveOn
\* are pairwise distinct, and no id is reused by a later operation.
C21_DistinctIds ==
  \A c, d \in Calls :
    \A i \in 1..Len(calls[c].statements), j \in 1..Len(calls[d].statements) :
      <<c, i>> # <<d, j>>
        => calls[c].statements[i].id # calls[d].statements[j].id

\* The moveOn calls that supplied a score to a session whose launch data
\* has no masteryScore, with the caller transform given.
ScoredWithoutMastery(transform) ==
  {c \in CallsOf({"moveOn"}) :
     /\ calls[c].launchData.defined
     /\ calls[c].launchData.masteryScore = Undefined
     /\ calls[c].args.score # NoScore
     /\ calls[c].args.transform = transform}

\* C23: when moveOn is called with a score while masteryScore is undefined,
\* no Passed or Failed statement is produced, the score is stamped as
\* result.score onto the Completed statement, and no other statement of the
\* sequence carries it: Terminated is sent without a result.score.
C23_ScoreOnCompletedOnly ==
  \A c \in ScoredWithoutMastery("none") :
    \A i \in 1..Len(calls[c].sent) :
      LET s == calls[c].sent[i] IN
      /\ s.verb \notin {"passed", "failed"}
      /\ s.verb = "completed" => s.score = _toResultScore(calls[c].args.score)
      /\ s.verb # "completed" => s.score = NoScore

\* C24: when moveOn is called with a score and a caller transform while
\* masteryScore is undefined, the Completed statement sent is
\* callerTransform(stampScore(statement)): the caller's transform is given
\* the statement that already carries the stamped score, and the result.score
\* it sets is the one sent.
C24_CallerTransformAfterStamp ==
  \A c \in ScoredWithoutMastery("rewrite") :
    \A i \in 1..Len(calls[c].sent) :
      calls[c].sent[i].verb = "completed"
        => calls[c].sent[i]
             = transformProvided(
                 setResultScore(_toResultScore(calls[c].args.score),
                                calls[c].statements[i]))

\* C25: at most one transport request of the session is outstanding at any
\* time, in every interleaving of the public operations the host can invoke
\* on one session instance.
C25_OneRequestOutstanding == Cardinality(inflight) <= 1

\* The name of the interaction kind an entry point stands for; the generic
\* entry point stands for the kind of the definition the host passes.
KindName(call) ==
  CASE call.op = "interactionTrueFalse" -> "true-false"
    [] call.op = "interactionChoice" -> "choice"
    [] call.op = "interactionFillIn" -> "fill-in"
    [] call.op = "interactionLongFillIn" -> "long-fill-in"
    [] call.op = "interactionLikert" -> "likert"
    [] call.op = "interactionMatching" -> "matching"
    [] call.op = "interactionPerformance" -> "performance"
    [] call.op = "interactionSequencing" -> "sequencing"
    [] call.op = "interactionNumeric" -> "numeric"
    [] call.op = "interactionOther" -> "other"
    [] OTHER -> call.args.interactionType

\* What every interaction statement holds besides its parent list: the verb
\* Answered, the derived object id, the kind's interactionType and no cmi5
\* category activity.
AnsweredAbout(call, s) ==
  /\ s.verb = "answered"
  /\ s.object = "url-activityId/test/" \o call.args.testId
                  \o "/question/" \o call.args.questionId
  /\ s.interactionType = KindName(call)
  /\ \A k \in 1..Len(s.category) : s.category[k] # "cmi5"

ObjectiveOf(call) ==
  IF call.args.objective # "undefined" THEN <<call.args.objective>> ELSE <<>>

\* C28 as stated: every interaction entry point produces a statement with
\* verb Answered, the object id activityId/test/testId/question/questionId
\* and the kind's interactionType, without the cmi5 category, and its
\* context.contextActivities.parent is [objective] exactly when an objective
\* is supplied (there is no parent otherwise).
C28_ParentIsObjective ==
  \A c \in CallsOf(InteractionEntryPoints) :
    \A i \in 1..Len(calls[c].sent) :
      /\ AnsweredAbout(calls[c], calls[c].sent[i])
      /\ calls[c].sent[i].parent = ObjectiveOf(calls[c])

\* C28, amended: every interaction entry point produces a statement with
\* verb Answered, the object id activityId/test/testId/question/questionId
\* and the kind's interactionType, without the cmi5 category; its
\* context.contextActivities.parent is the parent list of the
\* contextTemplate followed by the objective when one is supplied, and the
\* contextTemplate's parent list alone when none is.
C28_InteractionStatement ==
  \A c \in CallsOf(InteractionEntryPoints) :
    \A i \in 1..Len(calls[c].sent) :
      /\ AnsweredAbout(calls[c], calls[c].sent[i])
      /\ calls[c].sent[i].parent
           = lmsLaunchData.contextTemplate.parent \o ObjectiveOf(calls[c])

C28_Witness ==
  \E c \in CallsOf({"interactionMatching"}) :
    /\ calls[c].state = "resolved"
    /\ calls[c].args.objective = "objective1"
    /\ Len(calls[c].sent) = 1
    /\ calls[c].sent[1].interactionType = "matching"
    /\ calls[c].sent[1].object = "url-activityId/test/test1/question/question1"
    /\ calls[c].sent[1].parent = <<"lms", "objective1">>

Cmi5DefinedVerbs == {"initialized", "completed", "passed", "failed",
                     "terminated"}

\* C29: every cmi5-defined statement handed to the transport has the
\* Activity of launchParameters.activityId as its object, holds the cmi5
\* category activity, has launchParameters.actor as its actor and
\* launchParameters.registration as its context.registration, whatever the
\* contextTemplate is, one that carries a registration of its own included.
C29_DefinedStatementFields ==
  \A c \in Calls :
    \A i \in 1..Len(calls[c].sent) :
      LET s == calls[c].sent[i] IN
      s.verb \in Cmi5DefinedVerbs
        => /\ s.object = "url-activityId"
           /\ \E k \in 1..Len(s.category) : s.category[k] = "cmi5"
           /\ s.actor = "url-actor"
           /\ s.registration = "url-registration"

C29_Witness ==
  /\ lmsLaunchData.contextTemplate.registration = "lms"
  /\ \E c \in CallsOf({"moveOn"}) :
       /\ calls[c].state = "resolved"
       /\ Verbs(calls[c].sent) = <<"failed", "completed", "terminated">>
       /\ \A i \in 1..3 : calls[c].sent[i].registration = "url-registration"

\* The fresh initialize calls (no sessionState) among the calls cs.
FreshInitializes(cs) ==
  {c \in 1..Len(cs) : cs[c].op = "initialize" /\ ~cs[c].args.sessionState}

\* The place of a step of initialize in the required order; the assignment
\* of initializedDate and the send of Initialized are one synchronous run.
StepRank(step) ==
  CASE step = "post" -> 1
    [] step = "getState" -> 2
    [] step = "getAgentProfile" -> 3
    [] step = "sendStatement" -> 4

\* The request a step of initialize awaits.
StepRequest(step) == IF step = "sendStatement" THEN "statement" ELSE step

\* C30: in a fresh initialize the steps happen strictly in the order
\* auth-token POST, launch-data fetch, learner-preference fetch, assignment
\* of initializedDate, send of Initialized: the call starts with the POST, a
\* step starts only when the request of the step before it has settled and
\* left the transport, only the request of the current step is outstanding,
\* and Initialized is handed to the transport only once the launch data,
\* the preferences and initializedDate are set.
C30_InitializeOrder ==
  [][\A c \in FreshInitializes(calls') :
       LET new == calls'[c]
           requests == {r.kind : r \in {q \in inflight' : q.call = c}}
       IN
       /\ IF c > Len(calls)
          THEN new.step = "post"
          ELSE LET old == calls[c] IN
               \/ new.step = old.step
               \/ /\ StepRank(new.step) = StepRank(old.step) + 1
                  /\ \E r \in inflight \ inflight' :
                       r.call = c /\ r.kind = StepRequest(old.step)
                  /\ \E r \in inflight' \ inflight :
                       r.call = c /\ r.kind = StepRequest(new.step)
       /\ requests \subseteq {StepRequest(new.step)}
       /\ new.sent # <<>>
            => /\ new.step = "sendStatement"
               /\ Verbs(new.sent) = <<"initialized">>
               /\ authToken' # "null"
               /\ launchData'.defined
               /\ learnerPreferences' # "undefined"
               /\ initializedDate' # "undefined"
       /\ new.step # "sendStatement" => new.sent = <<>>]_vars

C30_Witness ==
  \E c \in FreshInitializes(calls) :
    /\ calls[c].step = "sendStatement"
    /\ calls[c].state = "pending"
    /\ Outstanding(c) # {}
    /\ launchData.defined /\ learnerPreferences = "lms"
    /\ initializedDate = "now"

\* The evaluations of a builder that have returned.
Returned(function) ==
  evaluation.function = function /\ evaluation.returned

\* The decimal rendering of the elapsed times the builders are called with.
Rendering(elapsed) ==
  CASE elapsed = 31 -> "PT31S"
    [] elapsed = 60 -> "PT1M"
    [] elapsed = 93 -> "PT1M33S"
    [] elapsed = 125 -> "PT2M5S"
    [] elapsed = 3600 -> "PT1H"
    [] elapsed = 7593 -> "PT2H6M33S"

\* C22: result.duration of a Completed, Passed, Failed or Terminated
\* statement is the ISO-8601 rendering of the whole time elapsed between
\* initializedDate and the build, the components that are 0 left out: 125 s
\* gives PT2M5S, 31 s gives PT31S, 93 s gives PT1M33S, 7593 s gives
\* PT2H6M33S.
C22_DurationSinceInitialized ==
  Returned("Cmi5ResultDuration")
    => LET a == evaluation.arguments IN
       a.verb \in {"completed", "passed", "failed", "terminated"}
         => evaluation.result = Passed(Rendering(a.now - a.initializedDate))

C22_Witness ==
  /\ Returned("Cmi5ResultDuration")
  /\ evaluation.arguments.verb = "terminated"
  /\ evaluation.arguments.initializedDate = 1000
  /\ evaluation.arguments.now = 8593
  /\ evaluation.result = Passed("PT2H6M33S")

\* A key-value pair of a matching map as the response writes it.
PairText(e) == e[1] \o "[.]" \o e[2]

JoinedPairs(entries) ==
  Join([i \in 1..Len(entries) |-> PairText(entries[i])], "[,]")

\* C26 as stated: the response of a matching interaction is the key-value
\* pairs source[.]target of the answer map in the map's insertion order,
\* joined by "[,]" ({a: 1, b: 2} gives "a[.]1[,]b[.]2"), and the
\* correct-answer pattern is the one-element list holding the same encoding
\* of the correct map.
C26_InsertionOrder ==
  Returned("Cmi5InteractionMatchingStatement")
    => LET a == evaluation.arguments IN
       /\ evaluation.result.response = JoinedPairs(a.answers)
       /\ a.correctAnswers.passed
            => evaluation.result.correctResponsesPattern
                 = Passed(<<JoinedPairs(a.correctAnswers.value)>>)

\* The order in which the members of a map are enumerated: the members
\* whose key is an integer in ascending order of the integer, then the
\* other members in the order they were inserted.
Enumerated(object) ==
  LET n == Len(object)
      Place(e) == CHOOSE i \in 1..n : object[i] = e
      Integer(e) == CHOOSE k \in 0..MaxArrayIndex : NumberToString(k) = e[1]
      Before(e, f) ==
        IF IsArrayIndex(e[1])
        THEN ~IsArrayIndex(f[1]) \/ Integer(e) < Integer(f)
        ELSE ~IsArrayIndex(f[1]) /\ Place(e) < Place(f)
  IN CHOOSE entries \in [1..n -> {object[i] : i \in 1..n}] :
       /\ \A i \in 1..n : \E j \in 1..n : entries[j] = object[i]
       /\ \A i, j \in 1..n : i < j => Before(entries[i], entries[j])

\* C26, amended: the response of a matching interaction is the key-value
\* pairs source[.]target of the answer map joined by "[,]", the pairs whose
\* source is an integer first, in ascending order of the integer, then the
\* other pairs in the map's insertion order ({a: 1, b: 2} gives
\* "a[.]1[,]b[.]2"); the correct-answer pattern is the one-element list
\* holding the same encoding of the correct map, and there is no pattern
\* when no correct map is passed.
C26_EnumerationOrder ==
  Returned("Cmi5InteractionMatchingStatement")
    => LET a == evaluation.arguments IN
       /\ evaluation.result.response = JoinedPairs(Enumerated(a.answers))
       /\ a.answers = << <<"a", "1">>, <<"b", "2">> >>
            => evaluation.result.response = "a[.]1[,]b[.]2"
       /\ evaluation.result.correctResponsesPattern
            = IF a.correctAnswers.passed
              THEN Passed(<<JoinedPairs(Enumerated(a.correctAnswers.value))>>)
              ELSE NotPassed

C26_Witness ==
  /\ Returned("Cmi5InteractionMatchingStatement")
  /\ evaluation.arguments.answers = << <<"b", "1">>, <<"2", "2">> >>
  /\ evaluation.arguments.correctAnswers = Passed(<< <<"b", "2">> >>)
  /\ evaluation.result.response = "2[.]2[,]b[.]1"
  /\ evaluation.result.correctResponsesPattern = Passed(<<"b[.]2">>)

\* The decimal string of the numbers a criteria object holds.
Decimal(n) ==
  CASE n = -2 -> "-2"
    [] n = 0 -> "0"
    [] n = 15 -> "15"

\* C27: for a numeric criteria object with an exact member the encoding is
\* the decimal string of exact; with min and max and no exact it is
\* min:max; for any other object it is ":"; and the correct-answer pattern
\* of a numeric interaction is the one-element list holding that string.
C27_NumericCriteria ==
  Returned("Cmi5InteractionNumericStatement")
    => LET c == evaluation.arguments.correctAnswer IN
       c.type = "object"
         => evaluation.result.correctResponsesPattern
              = Passed(<<IF "exact" \in c.members THEN Decimal(c.exact)
                         ELSE IF {"min", "max"} \subseteq c.members
                         THEN Decimal(c.min) \o ":" \o Decimal(c.max)
                         ELSE ":">>)

C27_Witness ==
  /\ Returned("Cmi5InteractionNumericStatement")
  /\ evaluation.arguments.correctAnswer.members = {"exact", "min", "max"}
  /\ evaluation.arguments.correctAnswer.exact = 15
  /\ evaluation.arguments.correctAnswer.min = -2
  /\ evaluation.result.correctResponsesPattern = Passed(<<"15">>)

\* No initialize(sessionState) was called: the session is a fresh one.
FreshSession ==
  \A c \in CallsOf({"initialize"}) : ~calls[c].args.sessionState

\* C31: in a fresh session Initialized is the first statement handed to the
\* transport, in every interleaving of the host's calls with a pending
\* initialize: no other operation has sent a statement while no initialize
\* has sent Initialized, and no statement is built while initializedDate or
\* launchData is unset.
C31_InitializedFirst ==
  FreshSession
    => /\ (\E c \in Calls : calls[c].op # "initialize" /\ calls[c].sent # <<>>)
            => \E c \in CallsOf({"initialize"}) :
                 Verbs(calls[c].sent) = <<"initialized">>
       /\ (\E c \in Calls : calls[c].statements # <<>>)
            => launchData.defined /\ initializedDate # "undefined"

\* C33: the moveOn of the refactored class is observably equivalent to the
\* moveOn before the refactoring: for every launchData, score, transform and
\* disableSendTerminated both hand the transport the same sequence of
\* statements (same verbs, same result.score on each, the caller transform
\* applied to the same statements) and return the same list of ids.
C33_RefactoredMoveOnEquivalent ==
  \A c \in CallsOf({"moveOn"}) :
    LET call == calls[c] IN
    call.state = "resolved"
      => LET before == PreRefactorMoveOn(call.launchData, call.args,
                                         call.statements[1].id.n)
         IN /\ call.sent = before.sent
            /\ call.newStatementIds = before.newStatementIds

\* C32 as stated: isAuthenticated is true only where an initialize has
\* completed successfully: it is false before initialize, while initialize
\* is pending, and after an initialize that rejected on the auth-token or
\* the launch-data fetch.
C32_AuthenticatedOnceInitialized ==
  isAuthenticated
    => \E c \in CallsOf({"initialize"}) : calls[c].state = "resolved"

\* The initialize calls that hold an auth token: they were given one in
\* sessionState, or their auth-token POST has resolved.
HoldsToken(c) ==
  \/ calls[c].args.sessionState
  \/ calls[c].step \in {"getState", "getAgentProfile", "sendStatement"}

\* C32, amended: isAuthenticated is true exactly in the states where an
\* initialize has its auth token (from sessionState, or from the auth-token
\* POST once it resolved): it is false before initialize, while the
\* auth-token POST is pending and after an initialize that rejected on it;
\* it is true while the launch-data fetch is pending and stays true after
\* an initialize that rejected on the launch-data fetch.
C32_AuthenticatedOnceTokenHeld ==
  isAuthenticated <=> \E c \in CallsOf({"initialize"}) : HoldsToken(c)

C32_Witness ==
  /\ Len(calls) = 1
  /\ calls[1].op = "initialize" /\ ~calls[1].args.sessionState
  /\ calls[1].state = "rejected" /\ calls[1].step = "getState"
  /\ isAuthenticated

\* C34: every Passed and every Failed statement built while
\* launchData.masteryScore is defined carries the masteryscore context
\* extension with the value of masteryScore, none carries it when
\* masteryScore is undefined, and Completed, Terminated and Initialized
\* never carry it.
C34_MasteryScoreExtension ==
  \A c \in Calls :
    \A i \in 1..Len(calls[c].statements) :
      LET s == calls[c].statements[i] IN
      /\ s.verb \in {"passed", "failed"}
           => s.masteryscore = calls[c].launchData.masteryScore
      /\ s.verb \in {"completed", "terminated", "initialized"}
           => s.masteryscore = Undefined

\* The members of a list of at most four strings, "[,]" between neighbours.
Listed(list) ==
  CASE Len(list) = 0 -> ""
    [] Len(list) = 1 -> list[1]
    [] Len(list) = 2 -> list[1] \o "[,]" \o list[2]
    [] Len(list) = 3 -> list[1] \o "[,]" \o list[2] \o "[,]" \o list[3]
    [] Len(list) = 4 ->
         list[1] \o "[,]" \o list[2] \o "[,]" \o list[3] \o "[,]" \o list[4]

\* C35: a choice, sequencing, fill-in or long-fill-in statement has as
\* response its answers joined by "[,]" in list order, and has a
\* correctResponsesPattern exactly when a list of correct answers is passed,
\* then the one-element list of that list joined the same way; a true-false
\* statement has the response "true" or "false" and has a
\* correctResponsesPattern whenever correctAnswer is passed, false included.
C35_ListAndTrueFalseEncoding ==
  /\ \A builder \in ListBuilders :
       Returned(builder)
         => LET a == evaluation.arguments IN
            /\ evaluation.result.response = Listed(a.answers)
            /\ evaluation.result.correctResponsesPattern
                 = IF a.correctAnswers.passed
                   THEN Passed(<<Listed(a.correctAnswers.value)>>)
                   ELSE NotPassed
  /\ Returned("Cmi5InteractionTrueFalseStatement")
       => LET a == evaluation.arguments IN
          /\ evaluation.result.response
               = (IF a.answer THEN "true" ELSE "false")
          /\ evaluation.result.correctResponsesPattern.passed
               = a.correctAnswer.passed
          /\ a.correctAnswer = Passed(FALSE)
               => evaluation.result.correctResponsesPattern
                    = Passed(<<"false">>)
          /\ a.correctAnswer = Passed(TRUE)
               => evaluation.result.correctResponsesPattern
                    = Passed(<<"true">>)

C35_Witness ==
  /\ Returned("Cmi5InteractionTrueFalseStatement")
  /\ evaluation.arguments.correctAnswer = Passed(FALSE)
  /\ evaluation.result.correctResponsesPattern = Passed(<<"false">>)

\* C36: the statement Cmi5InteractionStatement builds has a result.duration
\* exactly when a Period is passed, and it is then the time elapsed between
\* the start and the end of the Period, whatever initializedDate is; it has
\* a result.success exactly when success is passed as a boolean, with the
\* value passed, false included.
C36_InteractionResult ==
  Returned("Cmi5InteractionStatement")
    => LET a == evaluation.arguments IN
       /\ evaluation.result.duration.passed = a.duration.passed
       /\ a.duration.passed
            => evaluation.result.duration
                 = Passed(Rendering(a.duration.value.end
                                      - a.duration.value.start))
       /\ evaluation.result.success.passed = a.success.passed
       /\ a.success.passed
            => evaluation.result.success.value = a.success.value

C36_Witness ==
  /\ Returned("Cmi5InteractionStatement")
  /\ evaluation.arguments.initializedDate = 1000
  /\ evaluation.arguments.duration = Passed([start |-> 2000, end |-> 2125])
  /\ evaluation.arguments.success = Passed(FALSE)
  /\ evaluation.result.duration = Passed("PT2M5S")
  /\ evaluation.result.success = Passed(FALSE)

----------------------------------------------------------------------------
(* Cmi5.instance and Cmi5.clearInstance *)

MaxAccesses == 4

\* The query strings the page can have: every launch parameter, or all but
\* one.
Searches ==
  {LaunchParametersWithout(missing) :
     missing \in {{}, {"fetch"}, {"registration"}}}

Access(op, returned, threw) ==
  [op |-> op, returned |-> returned, threw |-> threw]

\* new Cmi5(): the launch parameters are read from window.location.search
\* and handed to the constructor of AbstractCmi5.
NewCmi5 == [id |-> constructed + 1, launchParameters |-> locationSearch]

\* The getter that constructs an object on every access.
instance_Uncached ==
  /\ Len(accesses) < MaxAccesses
  /\ IF ConstructorError(locationSearch) # ""
     THEN /\ accesses' = Append(accesses,
                           Access("instance", NoInstance,
                                  ConstructorError(locationSearch)))
          /\ UNCHANGED <<_instance, constructed>>
     ELSE /\ _instance' = NewCmi5
          /\ constructed' = constructed + 1
          /\ accesses' = Append(accesses, Access("instance", NewCmi5, ""))
  /\ UNCHANGED <<launchParameters, constructorError, evaluation,
                 lmsLaunchData, xapi, authToken, launchData,
                 learnerPreferences, initializedDate, nextId, calls,
                 inflight, locationSearch>>

\* static get instance(): an exception of the constructor leaves the
\* getter before the assignment to Cmi5._instance.
instance ==
  /\ Len(accesses) < MaxAccesses
  /\ IF _instance # NoInstance
     THEN /\ accesses' = Append(accesses, Access("instance", _instance, ""))
          /\ UNCHANGED <<_instance, constructed>>
     ELSE IF ConstructorError(locationSearch) # ""
     THEN /\ accesses' = Append(accesses,
                           Access("instance", NoInstance,
                                  ConstructorError(locationSearch)))
          /\ UNCHANGED <<_instance, constructed>>
     ELSE /\ _instance' = NewCmi5
          /\ constructed' = constructed + 1
          /\ accesses' = Append(accesses, Access("instance", NewCmi5, ""))
  /\ UNCHANGED <<launchParameters, constructorError, evaluation,
                 lmsLaunchData, xapi, authToken, launchData,
                 learnerPreferences, initializedDate, nextId, calls,
                 inflight, locationSearch>>

\* static clearInstance()
clearInstance ==
  /\ Len(accesses) < MaxAccesses
  /\ _instance' = NoInstance
  /\ accesses' = Append(accesses, Access("clearInstance", NoInstance, ""))
  /\ UNCHANGED <<launchParameters, constructorError, evaluation,
                 lmsLaunchData, xapi, authToken, launchData,
                 learnerPreferences, initializedDate, nextId, calls,
                 inflight, locationSearch, constructed>>

\* The page is given another query string.
setLocationSearch ==
  /\ \E search \in Searches \ {locationSearch} : locationSearch' = search
  /\ UNCHANGED <<launchParameters, constructorError, evaluation,
                 lmsLaunchData, xapi, authToken, launchData,
                 learnerPreferences, initializedDate, nextId, calls,
                 inflight, _instance, constructed, accesses>>

\* The page before anything has used Cmi5.instance: no session exists.
InitSingleton ==
  /\ launchParameters = LaunchParametersWithout({})
  /\ constructorError = ""
  /\ lmsLaunchData = [defined |-> TRUE, launchMode |-> "Normal",
                      masteryScore |-> Undefined,
                      contextTemplate |-> NoTemplate]
  /\ xapi = FALSE
  /\ authToken = "null"
  /\ launchData = NoLaunchData
  /\ learnerPreferences = "undefined"
  /\ initializedDate = "undefined"
  /\ nextId = 1
  /\ calls = <<>>
  /\ inflight = {}
  /\ evaluation = NoEvaluation
  /\ locationSearch \in Searches
  /\ _instance = NoInstance
  /\ constructed = 0
  /\ accesses = <<>>

NextSingleton ==
  \/ instance
  \/ clearInstance
  \/ setLocationSearch

SpecSingleton == InitSingleton /\ [][NextSingleton]_vars

\* The accesses of Cmi5.instance that returned an object.
Gave(i) == accesses[i].op = "instance" /\ accesses[i].threw = ""

Cleared(i, j) ==
  \E k \in (i + 1)..(j - 1) : accesses[k].op = "clearInstance"

\* C37: Cmi5.instance returns the same object on every access until
\* clearInstance() is called; the first access after clearInstance()
\* constructs a new object; an access whose construction throws caches
\* nothing, and the access after it constructs again.
C37_SingletonCache ==
  /\ \A i, j \in 1..Len(accesses) :
       i < j /\ Gave(i) /\ Gave(j)
         => IF Cleared(i, j)
            THEN accesses[j].returned # accesses[i].returned
            ELSE accesses[j].returned = accesses[i].returned
  /\ \A i \in 1..Len(accesses) :
       accesses[i].threw # ""
         => /\ i = Len(accesses) => _instance = NoInstance
            /\ i < Len(accesses) /\ Gave(i + 1)
                 => /\ accesses[i + 1].returned.launchParameters
                         = LaunchParametersWithout({})
                    /\ \A h \in 1..i :
                         accesses[h].returned # accesses[i + 1].returned

C37_Witness ==
  /\ Len(accesses) = 4
  /\ Gave(1)
  /\ accesses[2].op = "clearInstance"
  /\ accesses[3].threw # ""
  /\ Gave(4)
  /\ accesses[4].returned # accesses[1].returned
  /\ _instance = accesses[4].returned

====
